---- MODULE Spec2Model ----
(***************************************************************************)
(* A model of the Balancer reporting scripts: the windowed event           *)
(* aggregation, the withdrawal concentration analysis and the snapshot     *)
(* nearest-match of get_pool_tvl_deltas.py and                             *)
(* get_pool_tvl_deltas_optimized.py, their request helper with its rate    *)
(* limiter, the pagination of a pool's events, and the per-pool loops of   *)
(* these scripts and of bd_monthly_data.py.                                *)
(*                                                                         *)
(* Representation of the data.                                             *)
(*  - An epoch timestamp t is the pair <<t \div 1000, t % 1000>>: the      *)
(*    millisecond timestamps of the API are near 1.7 * 10^12, beyond the   *)
(*    32-bit integers of TLC, while both limbs fit.  All comparisons are   *)
(*    made on pairs (TsLeq); 1_700_000_000_000 is <<1700000000, 0>> and    *)
(*    1_700_000_000 is <<1700000, 0>>.                                     *)
(*  - A JSON number field that may be null or missing is <<>> (null or     *)
(*    missing) or <<n>> (the number n).  USD values are naturals.  A field *)
(*    holding a string that is not a number is <<"string", s>>.            *)
(*  - A call that ends in a ValueError gives the record ValueError in      *)
(*    place of its result.                                                 *)
(*  - A Python dict is a sequence of <<key, value>> pairs with distinct    *)
(*    keys, in insertion order (sorted() is stable, so the order shows).   *)
(***************************************************************************)
EXTENDS Integers, Sequences, FiniteSets, TLC

VARIABLES
    pc,              \* position of the run being modelled
    dates,           \* main: nov_2nd_ts, nov_5th_ts_start, nov_5th_ts_end, seven_days_ago_ts, today_ts
    events,          \* all_pool_events, the event list handed to aggregation
    range_results,   \* optimized main: process_events_for_ranges(all_pool_events, ranges)
    analysis,        \* optimized main: (count, address) per range
    legacy,          \* get_pool_tvl_deltas.py main: delta, count, address per range
    shuffled,        \* process_events_for_ranges on the events and the ranges in another order
    remove_by_user,  \* input of the concentration analysis called on its own
    total_removes,   \* input of the concentration analysis called on its own
    conc,            \* results of the two concentration analyses on that input
    snapshots,       \* input of get_tvl_for_date
    target_timestamp,\* input of get_tvl_for_date
    tvl,             \* result of get_tvl_for_date
    now,             \* time.time(), in tenths of a second
    request_times,   \* _rate_limiter.request_times
    attempt,         \* make_api_request: the loop variable
    outcomes,        \* make_api_request: what each requests.post of the call gave
    sent,            \* the times of the posts of the last time_window seconds
    posts,           \* the number of posts of the run
    failures_left,   \* how many more posts the network lets fail
    latency,         \* how long a post takes
    waits,           \* make_api_request: retry_after and wait_time of each time.sleep of the call
    admitted,        \* request_times and the clock when wait_if_needed last returned
    script,          \* which script runs: "optimized" or "legacy"
    server,          \* the events the API holds for the pool, in the order it serves them
    skip,            \* fetch_all_events / fetch_events_until_nov_2nd: skip
    all_events,      \* fetch_all_events / fetch_events_until_nov_2nd: all_events
    page_requests,   \* the number of page requests of the fetch
    fetch_ok,        \* every page request of the fetch has succeeded
    pools,           \* main: pools / raw, the pools of the run
    idx,             \* main: the index of the pool being processed, from 1
    bindings,        \* main: the local variables that last across iterations
    rows,            \* main: rows
    sheet,           \* the rows written to the spreadsheet
    requested        \* main: the requests made for the pools, and how each ended

vars == <<pc, dates, events, range_results, analysis, legacy, shuffled,
          remove_by_user, total_removes, conc, snapshots, target_timestamp, tvl,
          now, request_times, attempt, outcomes, sent, posts, failures_left, latency,
          waits, admitted,
          script, server, skip, all_events, page_requests, fetch_ok,
          pools, idx, bindings, rows, sheet, requested>>

reqVars == <<now, request_times, attempt, outcomes, sent, posts, failures_left, latency,
             waits, admitted>>

fetchVars == <<script, server, skip, all_events, page_requests, fetch_ok>>

runVars == <<pools, idx, bindings, rows, sheet, requested>>

ioVars == <<reqVars, fetchVars, runVars>>

aggVars  == <<dates, events, range_results, analysis, legacy, shuffled>>
concVars == <<remove_by_user, total_removes, conc>>
tvlVars  == <<snapshots, target_timestamp, tvl>>

----------------------------------------------------------------------------
(* Bounds of the model.                                                    *)

MaxEvents == 2

MaxActors == 3

MaxSnapshots == 3

\* the posts of one run of the request helper
MaxPosts == 31

\* the posts of such a run that the network lets fail
MaxFailures == 1

\* the runs of events with equal timestamps in the list the API holds for a pool
MaxSegments == 2

\* the pools of a run
MaxPools == 2

\* the times new events reach the API while a pool's events are fetched
MaxArrivals == 1

\* the events of a list aggregated in every order
MaxShuffled == 2

\* the aprItems of a pool
MaxAprItems == 3

\* the pools of get_plasma_pools.py
MaxPlasmaPools == 3

----------------------------------------------------------------------------
(* Timestamps.                                                             *)

\* the epoch second 1_700_000_000 + k
SecTs(k) == LET n == 1700000000 + k IN <<n \div 1000, n % 1000>>

\* the epoch millisecond (1_700_000_000 + k) * 1000 + r
MsTs(k, r) == <<1700000000 + k, r>>

TsLeq(a, b) == a[1] < b[1] \/ (a[1] = b[1] /\ a[2] <= b[2])

\* x > 1e12
exceeds_1e12(ts) == ts[1] > 1000000000 \/ (ts[1] = 1000000000 /\ ts[2] > 0)

\* int(ts / 1000)
int_div_1000(ts) == <<ts[1] \div 1000, ts[1] % 1000>>

\* a bug: the timestamp is taken as seconds whatever its magnitude
normalize_timestamp_no_ms(ts) == ts

normalize_timestamp(ts) ==
    IF exceeds_1e12(ts) THEN int_div_1000(ts) ELSE ts

\* the value of a field that holds a string which is not a number
NotANumber == <<"string", "abc">>

\* float(x or 0.0) raises ValueError: x is a non-empty string float() cannot parse
float_raises(x) == Len(x) = 2

\* float(x or 0.0) of a field fetched with .get(key, 0)
float_or_zero(x) == IF x = <<>> THEN 0 ELSE x[1]

\* the outcome of a call that float() ended with an exception
ValueError == [raised |-> "ValueError"]

----------------------------------------------------------------------------
(* Python dicts as insertion-ordered sequences of <<key, value>>.          *)

DictKeys(d) == {d[i][1] : i \in DOMAIN d}

DictIndex(d, k) == CHOOSE i \in DOMAIN d : d[i][1] = k

\* d[k] += v on a defaultdict(float), or after d[k] = 0.0 for a new key
dict_add(d, k, v) ==
    IF k \in DictKeys(d)
    THEN [d EXCEPT ![DictIndex(d, k)] = <<k, @[2] + v>>]
    ELSE Append(d, <<k, 0 + v>>)

RECURSIVE SumValues(_)
SumValues(d) == IF d = <<>> THEN 0 ELSE d[1][2] + SumValues(Tail(d))

RemoveAt(s, i) == SubSeq(s, 1, i - 1) \o SubSeq(s, i + 1, Len(s))

\* sorted(d.items(), key=lambda x: x[1], reverse=True): stable, so among equal
\* values the insertion order is kept
RECURSIVE sorted_desc(_)
sorted_desc(items) ==
    IF items = <<>> THEN <<>>
    ELSE LET i == CHOOSE j \in DOMAIN items :
                     /\ \A m \in DOMAIN items : items[m][2] <= items[j][2]
                     /\ \A m \in 1..(j - 1) : items[m][2] < items[j][2]
         IN <<items[i]>> \o sorted_desc(RemoveAt(items, i))

----------------------------------------------------------------------------
(* get_pool_tvl_deltas_optimized.py: the single-pass aggregation.          *)

RangeNames == {"nov_2_to_5", "nov_5_to_7d", "7d_to_today"}

\* main, the ranges dict built from the run's dates
ranges_of(d) ==
    [name \in RangeNames |->
        CASE name = "nov_2_to_5"  -> <<d.nov_2nd_ts, d.nov_5th_ts_end>>
          [] name = "nov_5_to_7d" ->
                IF TsLeq(d.nov_5th_ts_start, d.seven_days_ago_ts)
                THEN <<d.nov_5th_ts_start, d.seven_days_ago_ts>>
                ELSE <<d.seven_days_ago_ts, d.nov_5th_ts_end>>
          [] name = "7d_to_today" -> <<d.seven_days_ago_ts, d.today_ts>>]

\* a bug: the end of the range is excluded
in_range_open_end(start_ts, event_timestamp, end_ts) ==
    TsLeq(start_ts, event_timestamp) /\ TsLeq(event_timestamp, end_ts) /\ event_timestamp # end_ts

\* start_ts <= event_timestamp <= end_ts
in_range(start_ts, event_timestamp, end_ts) ==
    TsLeq(start_ts, event_timestamp) /\ TsLeq(event_timestamp, end_ts)

\* the accumulator of one range before the pass
empty_result == [adds |-> 0, removes |-> 0, remove_by_user |-> <<>>]

\* a bug: a REMOVE without a userAddress is grouped under the empty address
accumulate_any_address(acc, event, value_usd) ==
    IF event.type = "ADD"
    THEN [acc EXCEPT !.adds = @ + value_usd]
    ELSE IF event.type = "REMOVE"
    THEN [acc EXCEPT !.removes = @ + value_usd,
                     !.remove_by_user = dict_add(@, event.userAddress, value_usd)]
    ELSE acc

\* what an ADD / REMOVE event lying in a range does to that range's accumulator
accumulate(acc, event, value_usd) ==
    IF event.type = "ADD"
    THEN [acc EXCEPT !.adds = @ + value_usd]
    ELSE IF event.type = "REMOVE"
    THEN [acc EXCEPT !.removes = @ + value_usd,
                     !.remove_by_user =
                         IF event.userAddress # ""
                         THEN dict_add(@, event.userAddress, value_usd)
                         ELSE @]
    ELSE acc

\* one iteration of "for event in events", float() having returned
process_event(results, event, ranges) ==
    LET event_timestamp == normalize_timestamp(event.timestamp)
        value_usd       == float_or_zero(event.valueUSD)
    IN  IF event.type \notin {"ADD", "REMOVE"}
        THEN results
        ELSE [name \in DOMAIN results |->
                IF in_range(ranges[name][1], event_timestamp, ranges[name][2])
                THEN accumulate(results[name], event, value_usd)
                ELSE results[name]]

RECURSIVE process_loop(_, _, _)
process_loop(results, evs, ranges) ==
    IF evs = <<>> THEN results
    ELSE IF float_raises(Head(evs).valueUSD) THEN ValueError
    ELSE process_loop(process_event(results, Head(evs), ranges), Tail(evs), ranges)

\* a bug: the operands are swapped
delta_of_swapped(adds, removes) == removes - adds

\* results[range_name]['delta'] = adds - removes
delta_of(adds, removes) == adds - removes

process_events_for_ranges(evs, ranges) ==
    LET results == process_loop([name \in DOMAIN ranges |-> empty_result], evs, ranges)
    IN  IF results = ValueError THEN ValueError
        ELSE [name \in DOMAIN ranges |->
            [adds           |-> results[name].adds,
             removes        |-> results[name].removes,
             remove_by_user |-> results[name].remove_by_user,
             delta          |-> delta_of(results[name].adds, results[name].removes),
             total_removes  |-> results[name].removes]]

\* The same function with its dicts kept as items: ranges and results are
\* sequences of <<key, value>> in the order of the dict, and every loop over
\* ranges.items() or over results runs in that order.

\* a bug: the accumulator of a range is read from the range visited before it
ranges_loop_carrying(results, event, items) ==
    LET event_timestamp == normalize_timestamp(event.timestamp)
        value_usd       == float_or_zero(event.valueUSD)
        step[k \in 0..Len(items)] ==
            IF k = 0 THEN results
            ELSE LET i    == DictIndex(step[k - 1], items[k][1])
                     from == IF k = 1 THEN i ELSE DictIndex(step[k - 1], items[k - 1][1])
                 IN  IF in_range(items[k][2][1], event_timestamp, items[k][2][2])
                     THEN [step[k - 1] EXCEPT ![i][2] =
                              accumulate(step[k - 1][from][2], event, value_usd)]
                     ELSE step[k - 1]
    IN  step[Len(items)]

\* for range_name, (start_ts, end_ts) in ranges.items(): the event against the
\* ranges, one after the other
ranges_loop(results, event, items) ==
    LET event_timestamp == normalize_timestamp(event.timestamp)
        value_usd       == float_or_zero(event.valueUSD)
        step[k \in 0..Len(items)] ==
            IF k = 0 THEN results
            ELSE LET i == DictIndex(step[k - 1], items[k][1])
                 IN  IF in_range(items[k][2][1], event_timestamp, items[k][2][2])
                     THEN [step[k - 1] EXCEPT ![i][2] = accumulate(@, event, value_usd)]
                     ELSE step[k - 1]
    IN  step[Len(items)]

\* for event in events, float() returning for every event
RECURSIVE events_loop(_, _, _)
events_loop(results, evs, items) ==
    IF evs = <<>> THEN results
    ELSE IF Head(evs).type \notin {"ADD", "REMOVE"}
    THEN events_loop(results, Tail(evs), items)
    ELSE events_loop(ranges_loop(results, Head(evs), items), Tail(evs), items)

process_events_for_ranges_in_order(evs, items) ==
    LET results == events_loop([k \in DOMAIN items |-> <<items[k][1], empty_result>>],
                               evs, items)
    IN  IF \E i \in DOMAIN evs : float_raises(evs[i].valueUSD) THEN ValueError
        ELSE [k \in DOMAIN results |->
                <<results[k][1],
                  [adds           |-> results[k][2].adds,
                   removes        |-> results[k][2].removes,
                   remove_by_user |-> results[k][2].remove_by_user,
                   delta          |-> delta_of(results[k][2].adds, results[k][2].removes),
                   total_removes  |-> results[k][2].removes]>>]

----------------------------------------------------------------------------
(* The withdrawal concentration analysis.  A result is the returned tuple  *)
(* (count, address); raised is TRUE when the call ends in an exception     *)
(* (the division by a zero total) instead of returning.                    *)

Returned(count, address) == [count |-> count, address |-> address, raised |-> FALSE]

Raised == [count |-> 0, address |-> "", raised |-> TRUE]

\* a bug: the target is set to 50%
reaches_target_half(cumulative_value, total) == cumulative_value * 10 >= 5 * total

\* a bug: exactly 70% does not reach the target
reaches_target_strict(cumulative_value, total) == cumulative_value * 10 > 7 * total

\* cumulative_value / total >= 0.70, for a total > 0 (in tenths, without division)
reaches_target(cumulative_value, total) == cumulative_value * 10 >= 7 * total

\* the address returned by the optimized script when the target is reached
address_at_target(user_address, address_count) == user_address

\* the address returned by the optimized script when the target is never reached
address_at_end(sorted_users, address_count) == sorted_users[1][1]

RECURSIVE analysis_loop(_, _, _, _)
analysis_loop(sorted_users, total, i, cumulative_value) ==
    IF i > Len(sorted_users)
    THEN Returned(Len(sorted_users), address_at_end(sorted_users, Len(sorted_users)))
    ELSE LET cumulative == cumulative_value + sorted_users[i][2]
         IN  IF total = 0 THEN Raised
             ELSE IF reaches_target(cumulative, total)
             THEN Returned(i, address_at_target(sorted_users[i][1], i))
             ELSE analysis_loop(sorted_users, total, i + 1, cumulative)

\* a bug: a zero total is not caught before the division
no_data_unless_empty(rbu, total) == rbu = <<>>

\* if not remove_by_user or total_removes == 0: return (0, "")
no_data(rbu, total) == rbu = <<>> \/ total = 0

calculate_withdrawal_analysis_from_results(rbu, total) ==
    IF no_data(rbu, total)
    THEN Returned(0, "")
    ELSE analysis_loop(sorted_desc(rbu), total, 1, 0)

----------------------------------------------------------------------------
(* get_pool_tvl_deltas.py: the per-window pipeline.                        *)

\* filter_events_by_range compares int(event["timestamp"]), not normalized
filter_timestamp(ts) == ts

RECURSIVE filter_events_by_range(_, _, _)
filter_events_by_range(evs, start_ts, end_ts) ==
    IF evs = <<>> THEN <<>>
    ELSE LET event == Head(evs)
             rest  == filter_events_by_range(Tail(evs), start_ts, end_ts)
         IN  IF /\ in_range(start_ts, filter_timestamp(event.timestamp), end_ts)
                /\ event.type \in {"ADD", "REMOVE"}
             THEN <<event>> \o rest
             ELSE rest

RECURSIVE delta_loop(_, _, _, _, _)
delta_loop(evs, start_timestamp, end_timestamp, adds, removes) ==
    IF evs = <<>> THEN delta_of(adds, removes)
    ELSE LET event           == Head(evs)
             event_timestamp == normalize_timestamp(event.timestamp)
             value_usd       == float_or_zero(event.valueUSD)
             hit             == in_range(start_timestamp, event_timestamp, end_timestamp)
         IN  IF hit /\ float_raises(event.valueUSD) THEN ValueError
             ELSE delta_loop(Tail(evs), start_timestamp, end_timestamp,
                        IF hit /\ event.type = "ADD" THEN adds + value_usd ELSE adds,
                        IF hit /\ event.type = "REMOVE" THEN removes + value_usd
                                                         ELSE removes)

calculate_delta(evs, start_timestamp, end_timestamp) ==
    IF evs = <<>> THEN 0
    ELSE delta_loop(evs, start_timestamp, end_timestamp, 0, 0)

\* user_totals of the REMOVE events that carry a userAddress
RECURSIVE user_totals_of(_, _)
user_totals_of(evs, user_totals) ==
    IF evs = <<>> THEN user_totals
    ELSE LET event == Head(evs)
         IN  user_totals_of(Tail(evs),
                 IF event.type = "REMOVE" /\ event.userAddress # ""
                 THEN dict_add(user_totals, event.userAddress,
                               float_or_zero(event.valueUSD))
                 ELSE user_totals)

\* user_address if address_count == 1 else ""
address_if_one(user_address, address_count) ==
    IF address_count = 1 THEN user_address ELSE ""

RECURSIVE legacy_analysis_loop(_, _, _, _)
legacy_analysis_loop(sorted_users, total, i, cumulative_value) ==
    IF i > Len(sorted_users)
    THEN Returned(Len(sorted_users), address_if_one(sorted_users[1][1], Len(sorted_users)))
    ELSE LET cumulative == cumulative_value + sorted_users[i][2]
         IN  IF total = 0 THEN Raised
             ELSE IF reaches_target(cumulative, total)
             THEN Returned(i, address_if_one(sorted_users[i][1], i))
             ELSE legacy_analysis_loop(sorted_users, total, i + 1, cumulative)

calculate_withdrawal_analysis(evs, start_timestamp, end_timestamp) ==
    LET remove_events == SelectSeq(evs, LAMBDA e : e.type = "REMOVE")
        user_totals   == user_totals_of(remove_events, <<>>)
        total_withdrawals == SumValues(user_totals)
    IN  IF remove_events = <<>> THEN Returned(0, "")
        ELSE IF \E i \in DOMAIN remove_events : float_raises(remove_events[i].valueUSD)
        THEN ValueError
        ELSE IF user_totals = <<>> THEN Returned(0, "")
        ELSE IF total_withdrawals = 0 THEN Returned(0, "")
        ELSE legacy_analysis_loop(sorted_desc(user_totals), total_withdrawals, 1, 0)

\* main: the bounds given to filter_events_by_range for each reported window
legacy_filter_bounds(d) ==
    [name \in RangeNames |->
        CASE name = "nov_2_to_5"  -> <<d.nov_2nd_ts, d.nov_5th_ts_end>>
          [] name = "nov_5_to_7d" ->
                IF ~TsLeq(d.nov_5th_ts_start, d.seven_days_ago_ts)
                THEN <<d.seven_days_ago_ts, d.nov_5th_ts_end>>
                ELSE <<d.nov_5th_ts_start, d.seven_days_ago_ts>>
          [] name = "7d_to_today" -> <<d.seven_days_ago_ts, d.today_ts>>]

\* main: the bounds given to calculate_delta / calculate_withdrawal_analysis
legacy_delta_bounds(d) ==
    [name \in RangeNames |->
        CASE name = "nov_2_to_5"  -> <<d.nov_2nd_ts, d.nov_5th_ts_end>>
          [] name = "nov_5_to_7d" -> <<d.nov_5th_ts_start, d.seven_days_ago_ts>>
          [] name = "7d_to_today" -> <<d.seven_days_ago_ts, d.today_ts>>]

\* main: filter once per window, then delta and withdrawal analysis on the
\* filtered list
legacy_pipeline(evs, d) ==
    [name \in RangeNames |->
        LET filtered == filter_events_by_range(evs, legacy_filter_bounds(d)[name][1],
                                               legacy_filter_bounds(d)[name][2])
            b        == legacy_delta_bounds(d)[name]
        IN  [filtered |-> filtered,
             delta    |-> calculate_delta(filtered, b[1], b[2]),
             analysis |-> calculate_withdrawal_analysis(filtered, b[1], b[2])]]

----------------------------------------------------------------------------
(* get_tvl_for_date (the same in both scripts).                            *)

Abs(x) == IF x < 0 THEN -x ELSE x

\* a bug: the last of several equally close snapshots wins
RECURSIVE closest_index_last(_, _, _, _)
closest_index_last(snaps, target, i, best) ==
    IF i > Len(snaps) THEN best
    ELSE closest_index_last(snaps, target, i + 1,
            IF Abs(snaps[i].timestamp - target) <= Abs(snaps[best].timestamp - target)
            THEN i ELSE best)

\* min(snapshots, key=...): the index of the first snapshot with the least key
RECURSIVE closest_index(_, _, _, _)
closest_index(snaps, target, i, best) ==
    IF i > Len(snaps) THEN best
    ELSE closest_index(snaps, target, i + 1,
            IF Abs(snaps[i].timestamp - target) < Abs(snaps[best].timestamp - target)
            THEN i ELSE best)

get_tvl_for_date(snaps, target) ==
    IF snaps = <<>> THEN 0
    ELSE float_or_zero(snaps[closest_index(snaps, target, 2, 1)].totalLiquidity)

----------------------------------------------------------------------------
(* Inputs.                                                                 *)

\* the dates of a run: "normal" has Nov 5th before the day seven days ago,
\* "early" has the day seven days ago before Nov 5th
DateConfigs ==
    { [nov_2nd_ts |-> SecTs(0), nov_5th_ts_start |-> SecTs(1), nov_5th_ts_end |-> SecTs(2),
       seven_days_ago_ts |-> SecTs(3), today_ts |-> SecTs(4)],
      [nov_2nd_ts |-> SecTs(0), nov_5th_ts_start |-> SecTs(2), nov_5th_ts_end |-> SecTs(3),
       seven_days_ago_ts |-> SecTs(1), today_ts |-> SecTs(4)] }

\* seconds around the windows, on every bound of a window and outside all
SecondTimestamps == {SecTs(k) : k \in -1..5}

\* milliseconds: 1_700_000_000_000, one with a fraction of a second, the first
\* value above 10^12; and 10^12 itself, which is still read as seconds
MilliTimestamps == {MsTs(0, 0), MsTs(2, 999), <<1000000000, 1>>}

Timestamps == SecondTimestamps \cup MilliTimestamps \cup {<<1000000000, 0>>}

\* ADD and REMOVE events at every timestamp, events of another type, and REMOVE
\* events inside the windows that vary in value and actor
TimingEvents ==
    [timestamp : Timestamps, type : {"ADD", "REMOVE"},
     valueUSD : {<<7>>}, userAddress : {"A"}]

OtherTypeEvents ==
    [timestamp : {SecTs(1), MsTs(0, 0)}, type : {"SWAP"},
     valueUSD : {<<>>, <<7>>, NotANumber}, userAddress : {"A"}]

\* the events of the set whose valueUSD float() accepts
Parsable(evs) == {e \in evs : ~float_raises(e.valueUSD)}

ActorEvents ==
    [timestamp : {SecTs(2)}, type : {"REMOVE"},
     valueUSD : {<<>>, <<3>>, <<7>>}, userAddress : {"", "A", "B"}]

\* the events of the runs in which the aggregation returns; the events on which
\* float() raises are those of ValueEvents
EventDomain == TimingEvents \cup Parsable(OtherTypeEvents) \cup ActorEvents

EventLists == UNION {[1..n -> EventDomain] : n \in 0..MaxEvents}

\* actor -> removal mappings in every insertion order, with the totals a caller
\* may pass: zero, the sum of the mapping, and more than the sum
UserNames == <<"A", "B", "C", "D", "E", "F">>

Users == {UserNames[i] : i \in 1..MaxActors}

ConcValues == {0, 10, 20, 25, 35, 40, 70}

Mappings ==
    { m \in UNION {[1..n -> Users \X ConcValues] : n \in 0..MaxActors} :
        \A i, j \in DOMAIN m : i # j => m[i][1] # m[j][1] }

TotalsFor(m) == {0, SumValues(m), SumValues(m) + 30}

\* the REMOVE events, one per actor, that give the mapping m
events_of(m) ==
    [i \in DOMAIN m |->
        [timestamp |-> SecTs(2), type |-> "REMOVE",
         valueUSD |-> <<m[i][2]>>, userAddress |-> m[i][1]]]

\* snapshot sequences and targets
SnapshotDomain ==
    [timestamp : {100, 200, 300}, totalLiquidity : {<<>>, <<10>>, <<20>>, <<30>>}]

SnapshotLists == UNION {[1..n -> SnapshotDomain] : n \in 0..MaxSnapshots}

Targets == {150, 210, 300}

NotRun == <<>>

----------------------------------------------------------------------------
(* The aggregation run: one pool's events through the optimized script's   *)
(* process_events_for_ranges and concentration analysis, then through the  *)
(* per-window pipeline of get_pool_tvl_deltas.py.                          *)

\* no request has been made
\* wait_if_needed has not been called
NotCalled == [request_times |-> <<>>, now |-> 0]

NoRequests ==
    /\ now = 0
    /\ request_times = <<>>
    /\ attempt = 0
    /\ outcomes = <<>>
    /\ sent = <<>>
    /\ posts = 0
    /\ failures_left = 0
    /\ latency = 0
    /\ waits = <<>>
    /\ admitted = NotCalled

\* no page has been fetched
NoFetch ==
    /\ script = "optimized"
    /\ server = <<>>
    /\ skip = 0
    /\ all_events = <<>>
    /\ page_requests = 0
    /\ fetch_ok = TRUE

\* no spreadsheet has been written: a value that is no list of rows
NotWritten == <<[spreadsheet |-> "not written"]>>

\* no loop over pools is run
NoRun ==
    /\ pools = <<>>
    /\ idx = 1
    /\ bindings = <<>>
    /\ rows = <<>>
    /\ sheet = NotWritten
    /\ requested = <<>>

\* the runs on given data make no request
Offline == NoRequests /\ NoFetch /\ NoRun

NoResults ==
    /\ range_results = NotRun
    /\ analysis = NotRun
    /\ legacy = NotRun
    /\ shuffled = NotRun
    /\ conc = NotRun
    /\ tvl = 0

Init ==
    /\ pc = "aggregate"
    /\ dates \in DateConfigs
    /\ events \in EventLists
    /\ remove_by_user = <<>>
    /\ total_removes = 0
    /\ snapshots = <<>>
    /\ target_timestamp = 0
    /\ NoResults
    /\ Offline

\* range_results = process_events_for_ranges(all_pool_events, ranges)
Aggregate ==
    /\ pc = "aggregate"
    /\ range_results' = process_events_for_ranges(events, ranges_of(dates))
    /\ pc' = "analyze"
    /\ UNCHANGED <<dates, events, analysis, legacy, shuffled, concVars, tvlVars, ioVars>>

\* the three calls of calculate_withdrawal_analysis_from_results
Analyze ==
    /\ pc = "analyze"
    /\ analysis' = [name \in RangeNames |->
                       calculate_withdrawal_analysis_from_results(
                           range_results[name].remove_by_user,
                           range_results[name].total_removes)]
    /\ pc' = "legacy"
    /\ UNCHANGED <<dates, events, range_results, legacy, shuffled, concVars, tvlVars, ioVars>>

\* the same events through get_pool_tvl_deltas.py
LegacyRun ==
    /\ pc = "legacy"
    /\ legacy' = legacy_pipeline(events, dates)
    /\ pc' = "done"
    /\ UNCHANGED <<dates, events, range_results, analysis, shuffled, concVars, tvlVars, ioVars>>

Next == Aggregate \/ Analyze \/ LegacyRun

Spec == Init /\ [][Next]_vars

----------------------------------------------------------------------------
(* The concentration analyses called on an actor mapping: the optimized    *)
(* one on the mapping and a total, the other on the REMOVE events that     *)
(* give the mapping.                                                       *)

InitConc ==
    /\ pc = "concentration"
    /\ remove_by_user \in Mappings
    /\ total_removes \in TotalsFor(remove_by_user)
    /\ dates \in {d \in DateConfigs : TsLeq(d.nov_5th_ts_start, d.seven_days_ago_ts)}
    /\ events = <<>>
    /\ snapshots = <<>>
    /\ target_timestamp = 0
    /\ NoResults
    /\ Offline

Concentration ==
    /\ pc = "concentration"
    /\ conc' = [optimized |-> calculate_withdrawal_analysis_from_results(
                                  remove_by_user, total_removes),
                legacy    |-> calculate_withdrawal_analysis(
                                  events_of(remove_by_user), SecTs(0), SecTs(4))]
    /\ pc' = "concentration_done"
    /\ UNCHANGED <<aggVars, remove_by_user, total_removes, tvlVars, ioVars>>

NextConc == Concentration

SpecConc == InitConc /\ [][NextConc]_vars

----------------------------------------------------------------------------
(* get_tvl_for_date called on a snapshot sequence.                         *)

InitTvl ==
    /\ pc = "tvl"
    /\ snapshots \in SnapshotLists
    /\ target_timestamp \in Targets
    /\ dates \in {d \in DateConfigs : TsLeq(d.nov_5th_ts_start, d.seven_days_ago_ts)}
    /\ events = <<>>
    /\ remove_by_user = <<>>
    /\ total_removes = 0
    /\ NoResults
    /\ Offline

GetTvl ==
    /\ pc = "tvl"
    /\ tvl' = get_tvl_for_date(snapshots, target_timestamp)
    /\ pc' = "tvl_done"
    /\ UNCHANGED <<aggVars, concVars, snapshots, target_timestamp, ioVars>>

NextTvl == GetTvl

SpecTvl == InitTvl /\ [][NextTvl]_vars

----------------------------------------------------------------------------
(* The aggregations called on events whose valueUSD is a number, null or a *)
(* string that is not a number.                                            *)

ValueEvents ==
    [timestamp : {SecTs(1), SecTs(5)}, type : {"ADD", "REMOVE", "SWAP"},
     valueUSD : {<<>>, <<7>>, NotANumber}, userAddress : {"A"}] \cup OtherTypeEvents

ValueEventLists == UNION {[1..n -> ValueEvents] : n \in 0..MaxEvents}

InitValues ==
    /\ pc = "values"
    /\ dates \in DateConfigs
    /\ events \in ValueEventLists
    /\ remove_by_user = <<>>
    /\ total_removes = 0
    /\ snapshots = <<>>
    /\ target_timestamp = 0
    /\ NoResults
    /\ Offline

AggregateValues ==
    /\ pc = "values"
    /\ range_results' = process_events_for_ranges(events, ranges_of(dates))
    /\ legacy' = legacy_pipeline(events, dates)
    /\ pc' = "values_done"
    /\ UNCHANGED <<dates, events, analysis, shuffled, concVars, tvlVars, ioVars>>

NextValues == AggregateValues

SpecValues == InitValues /\ [][NextValues]_vars

----------------------------------------------------------------------------
(* The aggregation called on the same events in every order, with the keys *)
(* of the ranges dict in every order.                                      *)

\* main builds the ranges dict in this order
RangeOrder == <<"nov_2_to_5", "nov_5_to_7d", "7d_to_today">>

\* ranges.items() for the keys in the given order
items_of(d, keys) == [k \in DOMAIN keys |-> <<keys[k], ranges_of(d)[keys[k]]>>]

\* the orders of a sequence
Orders(seq) == {[k \in DOMAIN seq |-> seq[p[k]]] : p \in Permutations(DOMAIN seq)}

\* events of integer value: ADD at two times, REMOVE by two actors
ShuffledEvents ==
    [timestamp : {SecTs(1), SecTs(3)}, type : {"ADD"},
     valueUSD : {<<3>>, <<7>>}, userAddress : {"A"}] \cup
    [timestamp : {SecTs(1)}, type : {"REMOVE"},
     valueUSD : {<<3>>, <<7>>}, userAddress : {"A", "B"}]

ShuffledEventLists == UNION {[1..n -> ShuffledEvents] : n \in 0..MaxShuffled}

InitOrder ==
    /\ pc = "shuffle"
    /\ dates \in DateConfigs
    /\ events \in ShuffledEventLists
    /\ remove_by_user = <<>>
    /\ total_removes = 0
    /\ snapshots = <<>>
    /\ target_timestamp = 0
    /\ NoResults
    /\ Offline

\* process_events_for_ranges on the events and ranges as main gives them, and
\* on the same events and ranges in another order
AggregateShuffled(evs, keys) ==
    /\ pc = "shuffle"
    /\ range_results' = process_events_for_ranges_in_order(
                            events, items_of(dates, RangeOrder))
    /\ shuffled' = [events  |-> evs,
                    keys    |-> keys,
                    results |-> process_events_for_ranges_in_order(
                                    evs, items_of(dates, keys))]
    /\ pc' = "shuffled"
    /\ UNCHANGED <<dates, events, analysis, legacy, concVars, tvlVars, ioVars>>

NextOrder ==
    \E evs \in Orders(events), keys \in Orders(RangeOrder) : AggregateShuffled(evs, keys)

SpecOrder == InitOrder /\ [][NextOrder]_vars

----------------------------------------------------------------------------
(* make_api_request and the RateLimiter of get_pool_tvl_deltas_optimized.py.*)
(* The clock counts tenths of a second, the resolution of the limiter's    *)
(* 0.1 s buffer.  The status 0 stands for a requests.post that raised.     *)

max_requests == 30

time_window == 10

max_retries == 3

retry_delay == 1

\* s seconds on the clock
Seconds(s) == 10 * s

\* while self.request_times and self.request_times[0] < now - self.time_window
RECURSIVE popleft_expired(_, _)
popleft_expired(times, t) ==
    IF times # <<>> /\ times[1] < t - Seconds(time_window)
    THEN popleft_expired(Tail(times), t)
    ELSE times

\* a bug: the deque is not cleaned again after the wait
wait_if_needed_no_cleanup(times, t) ==
    LET cleaned   == popleft_expired(times, t)
        wait_time == Seconds(time_window) - (t - cleaned[1]) + 1
    IN  IF Len(cleaned) >= max_requests /\ wait_time > 0
        THEN [request_times |-> cleaned, now |-> t + wait_time]
        ELSE [request_times |-> cleaned, now |-> t]

\* RateLimiter.wait_if_needed at time t: the deque and the clock when it returns
wait_if_needed(times, t) ==
    LET cleaned   == popleft_expired(times, t)
        wait_time == Seconds(time_window) - (t - cleaned[1]) + 1
    IN  IF Len(cleaned) >= max_requests /\ wait_time > 0
        THEN [request_times |-> popleft_expired(cleaned, t + wait_time),
              now           |-> t + wait_time]
        ELSE [request_times |-> cleaned, now |-> t]

\* RateLimiter.record_request at time t
record_request(times, t) == Append(times, t)

\* a bug: every status other than 200 is retried
retried_status_any_failure(status_code) == status_code # 200

\* if response.status_code == 429: ... continue
retried_status(status_code) == status_code = 429

\* a bug: the backoff grows by retry_delay per attempt instead of doubling
wait_time_429_linear(retry_after, n, t) ==
    IF retry_after = <<>> THEN Seconds(retry_delay * (n + 1)) + (t % Seconds(1))
    ELSE IF Len(retry_after) = 2 THEN Seconds(retry_delay * (n + 1))
    ELSE Seconds(retry_after[1])

\* the sleep after a 429 received at time t: the Retry-After header if it is an
\* integer, the exponential backoff if it is not, the backoff with the jitter
\* time.time() % 1 if there is no header
wait_time_429(retry_after, n, t) ==
    IF retry_after = <<>> THEN Seconds(retry_delay * 2^n) + (t % Seconds(1))
    ELSE IF Len(retry_after) = 2 THEN Seconds(retry_delay * 2^n)
    ELSE Seconds(retry_after[1])

\* get_pool_tvl_deltas.py: the sleep after a 429 is retry_delay * (2 ** attempt),
\* whatever the headers
wait_time_429_legacy(n) == Seconds(retry_delay * 2^n)

\* time.sleep raises ValueError on a negative length
sleep_raises(wait_time) == wait_time < 0

\* the start of an iteration: the optimized script waits for the limiter,
\* get_pool_tvl_deltas.py has none and posts at once
admit(which, times, t) ==
    IF which = "optimized" THEN wait_if_needed(times, t)
    ELSE [request_times |-> times, now |-> t]

\* the sleep after an exception: retry_delay * (2 ** attempt)
wait_time_exception(n) == Seconds(retry_delay * 2^n)

\* except Exception: if attempt < max_retries - 1
may_retry(n) == n < max_retries - 1

\* for attempt in range(max_retries): another iteration follows iteration n
loop_continues(n) == n + 1 < max_retries

\* the posts of the closed interval of time_window seconds that ends at t
posts_in_window(times, t) ==
    Append(SelectSeq(times, LAMBDA x : x >= t - Seconds(time_window)), t)

\* the responses of the API to one post
Responses ==
    [status_code : {200, 500}, retry_after : {<<>>}] \cup
    [status_code : {429}, retry_after : {<<>>, <<-1>>, <<0>>, <<3>>, NotANumber}]

Failed(response) == response.status_code # 200

\* one iteration of the loop in which requests.post raises
PostRaises ==
    /\ pc = "attempt"
    /\ posts < MaxPosts
    /\ failures_left > 0
    /\ LET w == admit(script, request_times, now)
       IN  /\ sent' = posts_in_window(sent, w.now)
           /\ request_times' = w.request_times
           /\ IF may_retry(attempt)
              THEN /\ now' = w.now + latency + wait_time_exception(attempt)
                   /\ waits' = Append(waits, [retry_after |-> <<>>,
                                              wait_time |-> wait_time_exception(attempt)])
                   /\ attempt' = attempt + 1
                   /\ pc' = "attempt"
              ELSE /\ now' = w.now + latency
                   /\ waits' = waits
                   /\ attempt' = attempt
                   /\ pc' = "raised"
           /\ admitted' = w
    /\ outcomes' = Append(outcomes, 0)
    /\ posts' = posts + 1
    /\ failures_left' = failures_left - 1
    /\ UNCHANGED <<latency, aggVars, concVars, tvlVars, fetchVars, runVars>>

\* one iteration of the loop in which requests.post returns a response.  In
\* the optimized script the post is recorded first; a 429 whose wait
\* time.sleep rejects ends the try block in a ValueError, which the except
\* branch takes as it takes a post that raised, the deque not being cleared.
PostResponds(response) ==
    /\ pc = "attempt"
    /\ posts < MaxPosts
    /\ Failed(response) => failures_left > 0
    /\ LET w         == admit(script, request_times, now)
           received  == w.now + latency
           recorded  == IF script = "optimized"
                        THEN record_request(w.request_times, received)
                        ELSE w.request_times
           wait_time == IF script = "optimized"
                        THEN wait_time_429(response.retry_after, attempt, received)
                        ELSE wait_time_429_legacy(attempt)
       IN  /\ sent' = posts_in_window(sent, w.now)
           /\ IF retried_status(response.status_code)
              THEN IF sleep_raises(wait_time)
                   THEN /\ request_times' = recorded
                        /\ IF may_retry(attempt)
                           THEN /\ now' = received + wait_time_exception(attempt)
                                /\ waits' = Append(waits,
                                       [retry_after |-> response.retry_after,
                                        wait_time   |-> wait_time_exception(attempt)])
                                /\ attempt' = attempt + 1
                                /\ pc' = "attempt"
                           ELSE /\ now' = received
                                /\ waits' = waits
                                /\ attempt' = attempt
                                /\ pc' = "raised"
                   ELSE /\ now' = received + wait_time
                        /\ waits' = Append(waits,
                               [retry_after |-> response.retry_after,
                                wait_time   |-> wait_time])
                        /\ request_times' = IF script = "optimized" THEN <<>>
                                            ELSE w.request_times
                        /\ attempt' = attempt + 1
                        /\ pc' = IF loop_continues(attempt) THEN "attempt" ELSE "returned"
              ELSE /\ now' = received
                   /\ waits' = waits
                   /\ request_times' = recorded
                   /\ attempt' = attempt
                   /\ pc' = "returned"
           /\ admitted' = w
    /\ outcomes' = Append(outcomes, response.status_code)
    /\ posts' = posts + 1
    /\ failures_left' = IF Failed(response) THEN failures_left - 1 ELSE failures_left
    /\ UNCHANGED <<latency, aggVars, concVars, tvlVars, fetchVars, runVars>>

\* the caller makes its next call
Call ==
    /\ pc = "returned"
    /\ posts < MaxPosts
    /\ pc' = "attempt"
    /\ attempt' = 0
    /\ outcomes' = <<>>
    /\ waits' = <<>>
    /\ UNCHANGED <<now, request_times, sent, posts, failures_left, latency, admitted,
                   aggVars, concVars, tvlVars, fetchVars, runVars>>

\* the dates of a run made after Nov 12th
DefaultDates ==
    CHOOSE d \in DateConfigs : TsLeq(d.nov_5th_ts_start, d.seven_days_ago_ts)

\* the variables of the runs on given data, when no such run is made
NoData ==
    /\ events = <<>>
    /\ remove_by_user = <<>>
    /\ total_removes = 0
    /\ snapshots = <<>>
    /\ target_timestamp = 0
    /\ NoResults

\* the variables of the runs on given data and of the fetch, when make_api_request
\* is called on its own
OnlyRequests == dates = DefaultDates /\ NoData /\ NoFetch /\ NoRun

StartTimes == {0, 7}

Latencies == {0, 4}

\* the deque left by earlier calls made at time t: empty, one short of the
\* limit, at the limit
EarlierRequests(t) == {[i \in 1..n |-> t] : n \in {0, max_requests - 1, max_requests}}

\* one call of make_api_request of either script, every post of which may
\* fail; the deque is that of the optimized script's limiter
InitRequest ==
    /\ pc = "attempt"
    /\ now \in StartTimes
    /\ script \in {"optimized", "legacy"}
    /\ request_times \in IF script = "optimized" THEN EarlierRequests(now) ELSE {<<>>}
    /\ sent = request_times
    /\ attempt = 0
    /\ outcomes = <<>>
    /\ posts = 0
    /\ failures_left = max_retries
    /\ latency \in Latencies
    /\ waits = <<>>
    /\ admitted = NotCalled
    /\ dates = DefaultDates
    /\ NoData
    /\ server = <<>>
    /\ skip = 0
    /\ all_events = <<>>
    /\ page_requests = 0
    /\ fetch_ok = TRUE
    /\ NoRun

NextRequest == PostRaises \/ \E response \in Responses : PostResponds(response)

SpecRequest == InitRequest /\ [][NextRequest]_vars

\* the calls of a run, one after the other, few posts of which fail
InitLimiter ==
    /\ pc = "attempt"
    /\ now = 0
    /\ request_times = <<>>
    /\ sent = <<>>
    /\ attempt = 0
    /\ outcomes = <<>>
    /\ posts = 0
    /\ failures_left = MaxFailures
    /\ latency \in Latencies
    /\ waits = <<>>
    /\ admitted = NotCalled
    /\ OnlyRequests

NextLimiter == NextRequest \/ Call

SpecLimiter == InitLimiter /\ [][NextLimiter]_vars

----------------------------------------------------------------------------
(* The pagination of a pool's events: fetch_events_until_nov_2nd of        *)
(* get_pool_tvl_deltas_optimized.py and fetch_all_events of                *)
(* get_pool_tvl_deltas.py.  The lists of the fetch are run-length encoded: *)
(* <<n, ts>> stands for n consecutive events with timestamp ts, so that a  *)
(* pool with more events than the safety limit can be written down.  A     *)
(* step is one iteration of "while True", make_api_request included.       *)

page_size == 1000

safety_limit == 200000

\* len(list)
RECURSIVE list_len(_)
list_len(list) == IF list = <<>> THEN 0 ELSE list[1][1] + list_len(Tail(list))

\* first: n, skip: k of the API: list[k : k + n]
RECURSIVE list_slice(_, _, _)
list_slice(list, k, n) ==
    IF list = <<>> \/ n = 0 THEN <<>>
    ELSE LET count == list[1][1]
             take  == IF count - k < n THEN count - k ELSE n
         IN  IF k >= count THEN list_slice(Tail(list), k - count, n)
             ELSE <<<<take, list[1][2]>>>> \o list_slice(Tail(list), 0, n - take)

\* the events of the page with normalize_timestamp(timestamp) >= nov_2nd_ts
events_in_range(events_data, nov_2nd_ts) ==
    SelectSeq(events_data, LAMBDA e : TsLeq(nov_2nd_ts, normalize_timestamp(e[2])))

\* if skip > 200000: break
beyond_limit(k) == k > safety_limit

\* a bug: a page with fewer than page_size events does not end the loop
fetch_step_past_short_page(which, fetched, k, events_data, nov_2nd_ts) ==
    LET kept == IF which = "optimized" THEN events_in_range(events_data, nov_2nd_ts)
                ELSE events_data
        all_events_older == which = "optimized" /\ kept = <<>>
    IN  IF events_data = <<>>
        THEN [all_events |-> fetched, skip |-> k, done |-> TRUE]
        ELSE IF all_events_older
        THEN [all_events |-> fetched \o kept, skip |-> k, done |-> TRUE]
        ELSE [all_events |-> fetched \o kept, skip |-> k + page_size,
              done |-> beyond_limit(k + page_size)]

\* one iteration on a page served with status 200 and no errors: all_events and
\* skip after it, and whether the loop is left
fetch_step(which, fetched, k, events_data, nov_2nd_ts) ==
    LET kept == IF which = "optimized" THEN events_in_range(events_data, nov_2nd_ts)
                ELSE events_data
        all_events_older == which = "optimized" /\ kept = <<>>
    IN  IF events_data = <<>>
        THEN [all_events |-> fetched, skip |-> k, done |-> TRUE]
        ELSE IF all_events_older \/ list_len(events_data) < page_size
        THEN [all_events |-> fetched \o kept, skip |-> k, done |-> TRUE]
        ELSE [all_events |-> fetched \o kept, skip |-> k + page_size,
              done |-> beyond_limit(k + page_size)]

\* the API serves the page; the script takes it
FetchPage ==
    /\ pc = "fetch"
    /\ LET after == fetch_step(script, all_events, skip,
                               list_slice(server, skip, page_size), dates.nov_2nd_ts)
       IN  /\ all_events' = after.all_events
           /\ skip' = after.skip
           /\ pc' = IF after.done THEN "fetched" ELSE "fetch"
    /\ page_requests' = page_requests + 1
    /\ UNCHANGED <<script, server, fetch_ok, aggVars, concVars, tvlVars, reqVars, runVars>>

\* make_api_request returns a status other than 200: break
FetchRejected ==
    /\ pc = "fetch"
    /\ pc' = "fetched"
    /\ fetch_ok' = FALSE
    /\ page_requests' = page_requests + 1
    /\ UNCHANGED <<script, server, skip, all_events, aggVars, concVars, tvlVars, reqVars,
                   runVars>>

\* the response carries GraphQL errors: break
FetchErrors ==
    /\ pc = "fetch"
    /\ pc' = "fetched"
    /\ fetch_ok' = FALSE
    /\ page_requests' = page_requests + 1
    /\ UNCHANGED <<script, server, skip, all_events, aggVars, concVars, tvlVars, reqVars,
                   runVars>>

\* make_api_request raises: the exception leaves the fetch
FetchRaises ==
    /\ pc = "fetch"
    /\ pc' = "fetch_raised"
    /\ fetch_ok' = FALSE
    /\ page_requests' = page_requests + 1
    /\ UNCHANGED <<script, server, skip, all_events, aggVars, concVars, tvlVars, reqVars,
                   runVars>>

\* a run made on Nov 6th: the day seven days ago lies before Nov 2nd
EarlyRunDates ==
    [nov_2nd_ts |-> SecTs(0), nov_5th_ts_start |-> SecTs(2), nov_5th_ts_end |-> SecTs(3),
     seven_days_ago_ts |-> SecTs(-2), today_ts |-> SecTs(4)]

FetchDateConfigs == DateConfigs \cup {EarlyRunDates}

\* before every window, before Nov 2nd, after Nov 2nd
FetchTimestamps == {SecTs(-3), SecTs(-1), SecTs(1)}

SegmentCounts == {1, page_size, page_size + 1}

\* a pool with more events than the safety limit, all after Nov 2nd
LargePool == <<<<safety_limit + page_size + 500, SecTs(1)>>>>

ServerLists ==
    UNION {[1..n -> SegmentCounts \X FetchTimestamps] : n \in 0..MaxSegments}
        \cup {LargePool}

InitFetch ==
    /\ pc = "fetch"
    /\ script \in {"optimized", "legacy"}
    /\ server \in ServerLists
    /\ dates \in FetchDateConfigs
    /\ skip = 0
    /\ all_events = <<>>
    /\ page_requests = 0
    /\ fetch_ok = TRUE
    /\ NoData
    /\ NoRequests
    /\ NoRun

NextFetch == FetchPage \/ FetchRejected \/ FetchErrors \/ FetchRaises

SpecFetch == InitFetch /\ [][NextFetch]_vars

\* the timestamp of the events that reach the API during the fetch: the newest
ArrivalTimestamp == SecTs(2)

\* the number of arrivals so far
arrivals(list) == Len(SelectSeq(list, LAMBDA segment : segment[2] = ArrivalTimestamp))

\* between two page requests n new events of the pool reach the API, which
\* serves them before the older ones: every older event moves n places down
ServerGrows(n) ==
    /\ pc = "fetch"
    /\ page_requests > 0
    /\ arrivals(server) < MaxArrivals
    /\ server' = <<<<n, ArrivalTimestamp>>>> \o server
    /\ UNCHANGED <<pc, script, skip, all_events, page_requests, fetch_ok,
                   aggVars, concVars, tvlVars, reqVars, runVars>>

ArrivalCounts == {1, page_size}

\* the fetch of a pool that is in use while the script runs
InitLivePool ==
    /\ InitFetch
    /\ server # LargePool

NextLivePool == NextFetch \/ \E n \in ArrivalCounts : ServerGrows(n)

SpecLivePool == InitLivePool /\ [][NextLivePool]_vars

\* the same fetch, in which every request is answered: the script is sequential
\* and an iteration of "while True" that has begun comes to its end
SpecFetchLive == SpecFetch /\ WF_vars(NextFetch)

----------------------------------------------------------------------------
(* main of the two TVL scripts: the loop over the pools, one step per      *)
(* call of make_api_request or per fetch of a pool's events, then the      *)
(* write of the spreadsheet.  get_pool_tvl_deltas_optimized.py asks for    *)
(* the snapshots first and skips the pools below the TVL threshold;        *)
(* get_pool_tvl_deltas.py fetches the events first.  A local variable of   *)
(* main is <<>> while unbound and <<v>> once it holds v.                   *)

tvl_threshold == 300000

Unbound == <<>>

\* name = value
bind(locals, name, value) == [locals EXCEPT ![name] = <<value>>]

RunLocals == {"tvl_nov_2nd", "all_pool_events"}

\* a request made for a pool: the query, whether make_api_request raised, and
\* tvl_nov_2nd once the request is over
request_of(pool, query, raised, locals) ==
    [pool |-> pool, query |-> query, raised |-> raised, tvl_nov_2nd |-> locals["tvl_nov_2nd"]]

\* the request an iteration starts with
first_request(which) == IF which = "optimized" THEN "snapshots" ELSE "events"

\* a bug: the spreadsheet is written as soon as a pool is done
next_pool_writing_at_once(which, i, n) == "write"

\* the pool at index i is done: the next iteration, or the end of the loop
next_pool(which, i, n) == IF i + 1 > n THEN "write" ELSE first_request(which)

\* rows.append({...})
row_of(pool, locals) ==
    [pool            |-> pool,
     tvl_nov_2nd     |-> locals["tvl_nov_2nd"][1],
     all_pool_events |-> locals["all_pool_events"][1]]

\* the snapshots a request returns, on the time scale of SnapshotDomain
SnapshotResults ==
    {<<>>} \cup {<<[timestamp |-> 200, totalLiquidity |-> <<t>>]>> :
                    t \in {tvl_threshold - 1, tvl_threshold}}

\* the request for the snapshots returns: status 200 with the snapshots, or
\* another status, for which snapshots stays []
PoolSnapshots(status_code, snapshots_data) ==
    /\ pc = "snapshots"
    /\ LET tvl_nov_2nd == get_tvl_for_date(
                              IF status_code = 200 THEN snapshots_data ELSE <<>>, 200)
           locals      == bind(bindings, "tvl_nov_2nd", tvl_nov_2nd)
       IN  /\ bindings' = locals
           /\ requested' = Append(requested, request_of(pools[idx], "snapshots", FALSE, locals))
           /\ IF script = "optimized"
              THEN IF tvl_nov_2nd < tvl_threshold
                   THEN /\ rows' = rows
                        /\ idx' = idx + 1
                        /\ pc' = next_pool(script, idx, Len(pools))
                   ELSE /\ rows' = rows
                        /\ idx' = idx
                        /\ pc' = "events"
              ELSE /\ rows' = Append(rows, row_of(pools[idx], locals))
                   /\ idx' = idx + 1
                   /\ pc' = next_pool(script, idx, Len(pools))
    /\ UNCHANGED <<pools, sheet, script, server, skip, all_events, page_requests,
                   fetch_ok, aggVars, concVars, tvlVars, reqVars>>

\* the fetch of the pool's events returns its list, complete or cut short by a
\* failed page request
PoolEvents(fetched) ==
    /\ pc = "events"
    /\ LET locals == bind(bindings, "all_pool_events", fetched)
       IN  /\ bindings' = locals
           /\ requested' = Append(requested, request_of(pools[idx], "events", FALSE, locals))
           /\ IF script = "optimized"
              THEN /\ rows' = Append(rows, row_of(pools[idx], locals))
                   /\ idx' = idx + 1
                   /\ pc' = next_pool(script, idx, Len(pools))
              ELSE /\ rows' = rows
                   /\ idx' = idx
                   /\ pc' = "snapshots"
    /\ UNCHANGED <<pools, sheet, script, server, skip, all_events, page_requests,
                   fetch_ok, aggVars, concVars, tvlVars, reqVars>>

\* make_api_request raises in an iteration: nothing in main catches it
PoolRequestRaises ==
    /\ pc \in {"snapshots", "events"}
    /\ pc' = "aborted"
    /\ requested' = Append(requested, request_of(pools[idx], pc, TRUE, bindings))
    /\ UNCHANGED <<pools, idx, bindings, rows, sheet, fetchVars, aggVars, concVars, tvlVars,
                   reqVars>>

\* wks.set_dataframe(pd.DataFrame(rows), (1, 1))
WriteSheet ==
    /\ pc = "write"
    /\ sheet' = rows
    /\ pc' = "run_done"
    /\ UNCHANGED <<pools, idx, bindings, rows, requested, fetchVars, aggVars, concVars,
                   tvlVars, reqVars>>

PoolLists == {[i \in 1..n |-> i] : n \in 0..MaxPools}

InitRun ==
    /\ script \in {"optimized", "legacy"}
    /\ pools \in PoolLists
    /\ pc = next_pool(script, 0, Len(pools))
    /\ idx = 1
    /\ bindings = [name \in RunLocals |-> Unbound]
    /\ rows = <<>>
    /\ sheet = NotWritten
    /\ requested = <<>>
    /\ server = <<>>
    /\ skip = 0
    /\ all_events = <<>>
    /\ page_requests = 0
    /\ fetch_ok = TRUE
    /\ dates = DefaultDates
    /\ NoData
    /\ NoRequests

NextRun ==
    \/ \E status_code \in {200, 500}, snapshots_data \in SnapshotResults :
           PoolSnapshots(status_code, snapshots_data)
    \/ \E fetched \in {"complete", "cut short"} : PoolEvents(fetched)
    \/ PoolRequestRaises
    \/ WriteSheet

SpecRun == InitRun /\ [][NextRun]_vars

\* main from its first statement: the query for the list of pools returns;
\* a status other than 200 is logged and main returns
PoolsQuery(status_code, pool_list) ==
    /\ pc = "pools"
    /\ IF status_code # 200
       THEN /\ pools' = pools
            /\ pc' = "query_failed"
       ELSE /\ pools' = pool_list
            /\ pc' = next_pool(script, 0, Len(pool_list))
    /\ UNCHANGED <<idx, bindings, rows, sheet, requested, fetchVars, aggVars, concVars,
                   tvlVars, reqVars>>

\* make_api_request raises on the query for the list of pools
PoolsQueryRaises ==
    /\ pc = "pools"
    /\ pc' = "aborted"
    /\ UNCHANGED <<runVars, fetchVars, aggVars, concVars, tvlVars, reqVars>>

InitMain ==
    /\ script \in {"optimized", "legacy"}
    /\ pools = <<>>
    /\ pc = "pools"
    /\ idx = 1
    /\ bindings = [name \in RunLocals |-> Unbound]
    /\ rows = <<>>
    /\ sheet = NotWritten
    /\ requested = <<>>
    /\ server = <<>>
    /\ skip = 0
    /\ all_events = <<>>
    /\ page_requests = 0
    /\ fetch_ok = TRUE
    /\ dates = DefaultDates
    /\ NoData
    /\ NoRequests

NextMain ==
    \/ \E status_code \in {200, 500}, pool_list \in PoolLists :
           PoolsQuery(status_code, pool_list)
    \/ PoolsQueryRaises
    \/ NextRun

SpecMain == InitMain /\ [][NextMain]_vars

----------------------------------------------------------------------------
(* main of bd_monthly_data.py: the loop over the pools.  The snapshots of  *)
(* a pool are count equal records; a date is the day number of its         *)
(* timestamp; a relative change is the fraction <<numerator, denominator>>.*)

MonthlyLocals ==
    {"create_date", "tvl_7d_change", "tvl_30d_change",
     "volume_7d", "volume_30d", "fees_7d", "fees_30d"}

\* datetime.datetime.fromtimestamp(create_time).strftime("%Y-%m-%d")
date_of(create_time) == create_time \div 86400

\* ((tvl - ago) / ago) if ago else 0.0
change_since(current, ago) == IF ago # 0 THEN <<current - ago, ago>> ELSE <<0, 1>>

\* sum(float(s[field] or 0.0) for s in snapshots[-n:])
sum_of_last(n, value) == n * float_or_zero(value)

\* the assignments of one iteration, from the locals left by the iteration before
monthly_locals(locals, pool) ==
    LET dated == IF pool.createTime # 0
                 THEN bind(locals, "create_date", date_of(pool.createTime))
                 ELSE locals
        s     == pool.snapshot
    IN  IF pool.snapshot_count >= 30
        THEN bind(bind(bind(dated,
                 "tvl_30d_change", change_since(pool.tvl, float_or_zero(s.totalLiquidity))),
                 "volume_30d", sum_of_last(30, s.totalSwapVolume)),
                 "fees_30d", sum_of_last(30, s.totalSwapFee))
        ELSE IF pool.snapshot_count >= 7
        THEN bind(bind(bind(dated,
                 "tvl_7d_change", change_since(pool.tvl, float_or_zero(s.totalLiquidity))),
                 "volume_7d", sum_of_last(7, s.totalSwapVolume)),
                 "fees_7d", sum_of_last(7, s.totalSwapFee))
        ELSE [name \in MonthlyLocals |->
                 IF name = "create_date" THEN dated[name]
                 ELSE IF name \in {"tvl_7d_change", "tvl_30d_change"} THEN <<<<0, 1>>>>
                 ELSE <<0>>]

\* the outcome of rows.append when a local variable it reads is unbound
UnboundLocalError == [raised |-> "UnboundLocalError"]

\* rows.append({...}): the row, or the exception
monthly_row(locals, pool) ==
    IF \E name \in MonthlyLocals : locals[name] = Unbound
    THEN UnboundLocalError
    ELSE [name \in MonthlyLocals \cup {"tvl"} |->
             IF name = "tvl" THEN pool.tvl ELSE locals[name][1]]

\* one iteration of "for pool in raw"
MonthlyPool ==
    /\ pc = "monthly"
    /\ LET locals == monthly_locals(bindings, pools[idx])
           row    == monthly_row(locals, pools[idx])
       IN  /\ bindings' = locals
           /\ IF row = UnboundLocalError
              THEN /\ rows' = rows
                   /\ idx' = idx
                   /\ pc' = "aborted"
              ELSE /\ rows' = Append(rows, row)
                   /\ idx' = idx + 1
                   /\ pc' = IF idx + 1 > Len(pools) THEN "write" ELSE "monthly"
    /\ UNCHANGED <<pools, sheet, requested, fetchVars, aggVars, concVars, tvlVars, reqVars>>

MonthlyPoolDomain ==
    [createTime : {0, 86400, 172800}, tvl : {100}, snapshot_count : {6, 7, 30},
     snapshot : {[totalLiquidity |-> <<50>>, totalSwapVolume |-> <<1>>, totalSwapFee |-> <<2>>],
                 [totalLiquidity |-> <<>>, totalSwapVolume |-> <<3>>, totalSwapFee |-> <<>>]}]

MonthlyPoolLists == UNION {[1..n -> MonthlyPoolDomain] : n \in 0..MaxPools}

InitMonthly ==
    /\ pools \in MonthlyPoolLists
    /\ pc = IF pools = <<>> THEN "write" ELSE "monthly"
    /\ idx = 1
    /\ bindings = [name \in MonthlyLocals |-> Unbound]
    /\ rows = <<>>
    /\ sheet = NotWritten
    /\ requested = <<>>
    /\ dates = DefaultDates
    /\ NoData
    /\ NoRequests
    /\ NoFetch

NextMonthly == MonthlyPool \/ WriteSheet

SpecMonthly == InitMonthly /\ [][NextMonthly]_vars

----------------------------------------------------------------------------
(* main of get_plasma_pools.py: the row of a pool and its APR.  An APR is  *)
(* a number of ten-thousandths; the row holds it as "%.3f" gives it, in    *)
(* thousandths.                                                            *)

\* float(it.get("apr") or 0.0), 0.0 when float() raises TypeError or ValueError
apr_or_zero(apr) == IF float_raises(apr) THEN 0 ELSE float_or_zero(apr)

\* the index of the first item of the type, 0 when there is none
first_of_type(apr_items, typ) ==
    IF \E i \in DOMAIN apr_items : apr_items[i].type = typ
    THEN CHOOSE i \in DOMAIN apr_items :
             /\ apr_items[i].type = typ
             /\ \A j \in 1..(i - 1) : apr_items[j].type # typ
    ELSE 0

\* a bug: a dynamic swap APR of 0 is passed over for the static one
swap_apr_of_first_nonzero(apr_items) ==
    LET dynamic == first_of_type(apr_items, "DYNAMIC_SWAP_FEE_24H")
        static  == first_of_type(apr_items, "SWAP_FEE_24H")
    IN  IF dynamic # 0 /\ apr_or_zero(apr_items[dynamic].apr) # 0
        THEN <<apr_or_zero(apr_items[dynamic].apr)>>
        ELSE IF static # 0 THEN <<apr_or_zero(apr_items[static].apr)>>
        ELSE IF dynamic # 0 THEN <<0>>
        ELSE Unbound

\* swap_apr after "for typ in (DYNAMIC_SWAP_FEE_24H, SWAP_FEE_24H)": <<>> is None
swap_apr_of(apr_items) ==
    LET dynamic == first_of_type(apr_items, "DYNAMIC_SWAP_FEE_24H")
        static  == first_of_type(apr_items, "SWAP_FEE_24H")
    IN  IF dynamic # 0 THEN <<apr_or_zero(apr_items[dynamic].apr)>>
        ELSE IF static # 0 THEN <<apr_or_zero(apr_items[static].apr)>>
        ELSE Unbound

\* non_swap_apr: the items of the other types, those float() rejects passed over
RECURSIVE non_swap_apr_of(_)
non_swap_apr_of(apr_items) ==
    IF apr_items = <<>> THEN 0
    ELSE (IF Head(apr_items).type \in {"DYNAMIC_SWAP_FEE_24H", "SWAP_FEE_24H"}
          THEN 0
          ELSE apr_or_zero(Head(apr_items).apr))
         + non_swap_apr_of(Tail(apr_items))

\* apr_sum = (swap_apr or 0.0) + non_swap_apr
apr_sum_of(apr_items) == float_or_zero(swap_apr_of(apr_items)) + non_swap_apr_of(apr_items)

\* f'{apr_sum:.3f}': ten-thousandths to the nearest thousandth
format_3f(x) == (x + 5) \div 10

\* tvl = float(pool["dynamicData"].get("totalLiquidity") or 0.0), 0.0 when
\* float() raises
tvl_or_zero(total_liquidity) ==
    IF float_raises(total_liquidity) THEN 0 ELSE float_or_zero(total_liquidity)

\* f'{tvl:.0f}' of a whole number of dollars: the string of its decimal
\* digits, written as the sequence of the digits
RECURSIVE format_0f(_)
format_0f(n) == IF n < 10 THEN <<n>> ELSE Append(format_0f(n \div 10), n % 10)

\* a < b for two strings of digits, as Python compares strings
RECURSIVE str_less(_, _)
str_less(a, b) ==
    IF b = <<>> THEN FALSE
    ELSE IF a = <<>> THEN TRUE
    ELSE IF Head(a) # Head(b) THEN Head(a) < Head(b)
    ELSE str_less(Tail(a), Tail(b))

\* df.sort_values("Current TVL", ascending=False): the rows in an order in
\* which the strings of the column do not go up.  The sort is pandas' default
\* quicksort, which is no stable sort: rows with the same string come in any
\* order.
sort_values_descending(df) ==
    {sorted \in Orders(df) :
        \A i \in 1..(Len(sorted) - 1) :
            ~str_less(sorted[i].current_tvl, sorted[i + 1].current_tvl)}

\* requests.post returns: a status other than 200 is logged and main returns
PlasmaQuery(status_code, raw) ==
    /\ pc = "plasma_query"
    /\ IF status_code # 200
       THEN /\ pools' = pools
            /\ pc' = "plasma_query_failed"
       ELSE /\ pools' = raw
            /\ pc' = IF raw = <<>> THEN "plasma_write" ELSE "plasma"
    /\ UNCHANGED <<idx, bindings, rows, sheet, requested, fetchVars, aggVars, concVars,
                   tvlVars, reqVars>>

\* requests.post raises: nothing in main catches it
PlasmaQueryRaises ==
    /\ pc = "plasma_query"
    /\ pc' = "aborted"
    /\ UNCHANGED <<runVars, fetchVars, aggVars, concVars, tvlVars, reqVars>>

\* one iteration of "for pool in raw"; of the columns of the row, the TVL and
\* the APR
PlasmaPool ==
    /\ pc = "plasma"
    /\ rows' = IF pools[idx].poolTokens < 2 THEN rows
               ELSE Append(rows, [pool        |-> pools[idx],
                                  current_tvl |-> format_0f(
                                                      tvl_or_zero(pools[idx].totalLiquidity)),
                                  current_apr |-> format_3f(
                                                      apr_sum_of(pools[idx].aprItems))])
    /\ idx' = idx + 1
    /\ pc' = IF idx + 1 > Len(pools) THEN "plasma_write" ELSE "plasma"
    /\ UNCHANGED <<pools, bindings, sheet, requested, fetchVars, aggVars, concVars, tvlVars,
                   reqVars>>

\* after the loop: the DataFrame of the rows, sorted if it is not empty, then
\* wks.clear() and wks.set_dataframe(df, (1, 1))
WritePlasmaSheet(df) ==
    /\ pc = "plasma_write"
    /\ IF rows = <<>> THEN df = rows ELSE df \in sort_values_descending(rows)
    /\ sheet' = df
    /\ pc' = "plasma_done"
    /\ UNCHANGED <<pools, idx, bindings, rows, requested, fetchVars, aggVars, concVars,
                   tvlVars, reqVars>>

\* the APR items of the API: the two swap-fee types and another type; APRs
\* that are null, 0, numbers (no sum of which ends in 5 ten-thousandths, so
\* that "%.3f" has no tie to break) or a string that is no number
AprItems ==
    [type : {"DYNAMIC_SWAP_FEE_24H", "SWAP_FEE_24H", "STAKING"},
     apr  : {<<>>, <<0>>, <<12>>, <<30>>, NotANumber}]

AprItemLists == UNION {[1..n -> AprItems] : n \in 0..MaxAprItems}

\* totalLiquidity: null, and numbers whose strings are in another order than
\* the numbers ("95" > "900" > "1000" > "0")
TotalLiquidities == {<<>>, <<95>>, <<900>>, <<1000>>}

\* pools by their number of poolTokens, their totalLiquidity and their aprItems
PlasmaPools(liquidities, item_lists) ==
    [poolTokens : {1, 2}, totalLiquidity : liquidities, aprItems : item_lists]

\* the answers to the query: one pool with any list of aprItems, or up to
\* MaxPlasmaPools pools of any totalLiquidity
PlasmaPoolLists ==
    [1..1 -> PlasmaPools({<<900>>}, AprItemLists)] \cup
    UNION {[1..n -> PlasmaPools(TotalLiquidities, {<<>>})] : n \in 0..MaxPlasmaPools}

InitPlasma ==
    /\ pools = <<>>
    /\ pc = "plasma_query"
    /\ idx = 1
    /\ bindings = <<>>
    /\ rows = <<>>
    /\ sheet = NotWritten
    /\ requested = <<>>
    /\ dates = DefaultDates
    /\ NoData
    /\ NoRequests
    /\ NoFetch

NextPlasma ==
    \/ /\ pc = "plasma_query"
       /\ \E status_code \in {200, 500}, raw \in PlasmaPoolLists :
              PlasmaQuery(status_code, raw)
    \/ PlasmaQueryRaises
    \/ PlasmaPool
    \/ \E df \in Orders(rows) : WritePlasmaSheet(df)

SpecPlasma == InitPlasma /\ [][NextPlasma]_vars

----------------------------------------------------------------------------
(* The three together: a behaviour is any one of the runs above.           *)

InitCore == Init \/ InitConc \/ InitTvl

NextCore == Next \/ NextConc \/ NextTvl

SpecCore == InitCore /\ [][NextCore]_vars

----------------------------------------------------------------------------
(* What the claims speak of, stated without the operators of the model.    *)

\* the timestamp in seconds: floor(ts / 1000) above 10^12, ts itself otherwise
SecondsOf(ts) ==
    IF ts[1] > 1000000000 \/ (ts[1] = 1000000000 /\ ts[2] >= 1)
    THEN <<ts[1] \div 1000, ts[1] % 1000>>
    ELSE ts

ValueOf(e) == IF e.valueUSD = <<>> THEN 0 ELSE e.valueUSD[1]

\* start <= seconds <= end
InWindow(e, w) ==
    /\ ~TsLeq(SecondsOf(e.timestamp), w[1]) \/ SecondsOf(e.timestamp) = w[1]
    /\ ~TsLeq(w[2], SecondsOf(e.timestamp)) \/ SecondsOf(e.timestamp) = w[2]

RECURSIVE SumOver(_, _)
SumOver(f, S) ==
    IF S = {} THEN 0
    ELSE LET x == CHOOSE y \in S : TRUE IN f[x] + SumOver(f, S \ {x})

\* the sum of valueUSD of the events of a type in a window
WindowSum(evs, w, type) ==
    SumOver([i \in DOMAIN evs |-> ValueOf(evs[i])],
            {i \in DOMAIN evs : evs[i].type = type /\ InWindow(evs[i], w)})

Aggregated == pc = "done"

Windows == ranges_of(dates)

\* C1: for every event list and every window, process_events_for_ranges returns
\* adds >= 0, removes >= 0 and delta = adds - removes, adds and removes being the
\* sums of valueUSD of the ADD and of the REMOVE events whose normalized
\* timestamp lies in the window.
C1_SumsAndDelta ==
    Aggregated =>
        \A name \in RangeNames :
            LET r == range_results[name]
            IN  /\ r.adds >= 0
                /\ r.removes >= 0
                /\ r.adds = WindowSum(events, Windows[name], "ADD")
                /\ r.removes = WindowSum(events, Windows[name], "REMOVE")
                /\ r.delta = r.adds - r.removes

\* an ADD and a REMOVE in one window, with a nonzero net flow
C1_Witness ==
    /\ Aggregated
    /\ \E name \in RangeNames :
          /\ range_results[name].adds = 7
          /\ range_results[name].removes = 3
          /\ range_results[name].delta = 4

\* C2: an ADD / REMOVE event contributes to a window if and only if
\* start <= normalized timestamp <= end, both bounds included, and this is
\* decided for each window on its own: the last event of the list raises each
\* window's adds + removes by its full value when it lies in the window, and
\* by nothing otherwise.
C2_InclusiveMembership ==
    (Aggregated /\ events # <<>>) =>
        LET e      == events[Len(events)]
            before == process_events_for_ranges(SubSeq(events, 1, Len(events) - 1), Windows)
            n      == SecondsOf(e.timestamp)
        IN  \A name \in RangeNames :
                LET w == Windows[name]
                    r == range_results[name]
                    member == /\ e.type \in {"ADD", "REMOVE"}
                              /\ TsLeq(w[1], n)
                              /\ TsLeq(n, w[2])
                IN  (r.adds + r.removes) - (before[name].adds + before[name].removes)
                        = IF member THEN ValueOf(e) ELSE 0

\* an event on the end of one window and on the start of another is counted in
\* full in both, and an event inside two overlapping windows is counted in both
C2_Witness ==
    /\ Aggregated
    /\ Len(events) = 1
    /\ events[1].type = "ADD"
    /\ \E n1, n2 \in RangeNames :
          /\ n1 # n2
          /\ events[1].timestamp = Windows[n1][2]
          /\ events[1].timestamp = Windows[n2][1]
          /\ range_results[n1].adds = 7
          /\ range_results[n2].adds = 7

\* the events with every millisecond timestamp replaced by its seconds
InSeconds(evs) ==
    [i \in DOMAIN evs |-> [evs[i] EXCEPT !.timestamp = SecondsOf(@)]]

\* C3: in process_events_for_ranges an event whose timestamp exceeds 10^12 is
\* aggregated exactly as the same event with timestamp floor(ts / 1000), and a
\* timestamp <= 10^12 is used unchanged as seconds.
C3_MillisecondsAsSeconds ==
    Aggregated =>
        /\ range_results = process_events_for_ranges(InSeconds(events), Windows)
        /\ \A i \in DOMAIN events :
              LET ts == events[i].timestamp
              IN  /\ TsLeq(ts, <<1000000000, 0>>) => normalize_timestamp(ts) = ts
                  /\ ~TsLeq(ts, <<1000000000, 0>>) =>
                        normalize_timestamp(ts) = <<ts[1] \div 1000, ts[1] % 1000>>
                  /\ events[i].type = "ADD" =>
                        \A name \in RangeNames :
                            range_results[name].adds >=
                                IF InWindow(events[i], Windows[name])
                                THEN ValueOf(events[i]) ELSE 0

\* 1_700_000_000_000 is counted in the window that starts at 1_700_000_000, and
\* 10^12 itself, read as seconds, is counted nowhere
C3_Witness ==
    /\ Aggregated
    /\ Len(events) = 2
    /\ events[1] = [timestamp |-> <<1700000000, 0>>, type |-> "ADD",
                    valueUSD |-> <<7>>, userAddress |-> "A"]
    /\ events[2].timestamp = <<1000000000, 0>>
    /\ events[2].type = "ADD"
    /\ range_results["nov_2_to_5"].adds = 7
    /\ Windows["nov_2_to_5"][1] = <<1700000, 0>>

\* C4: in get_pool_tvl_deltas.py the pipeline filter_events_by_range followed by
\* calculate_delta counts an ADD / REMOVE event with a millisecond timestamp
\* whenever floor(ts / 1000) lies in the window: the reported delta is the delta
\* reported for the same events with their timestamps in seconds.
C4_LegacyDeltaCountsMilliseconds ==
    pc = "done" =>
        \A name \in RangeNames :
            legacy[name].delta = legacy_pipeline(InSeconds(events), dates)[name].delta

\* the REMOVE events of a window, all of them and those of one address
WindowRemoves(evs, w) ==
    {i \in DOMAIN evs : evs[i].type = "REMOVE" /\ InWindow(evs[i], w)}

RemovedBy(evs, w, a) ==
    SumOver([i \in DOMAIN evs |-> ValueOf(evs[i])],
            {i \in WindowRemoves(evs, w) : evs[i].userAddress = a})

\* the sum of the values of a mapping
Total(d) == SumOver([i \in DOMAIN d |-> d[i][2]], DOMAIN d)

\* C9: a REMOVE event inside a window whose userAddress is empty or missing is
\* added to the window's total removes but to no entry of remove_by_user: the
\* keys of remove_by_user are the non-empty addresses that removed in the
\* window, each with the sum of its own removals, so that the values sum to the
\* total removes less the removals without an address, and to no more than the
\* total removes.
C9_RemovesWithoutAddress ==
    Aggregated =>
        \A name \in RangeNames :
            LET r == range_results[name]
                w == Windows[name]
                d == r.remove_by_user
            IN  /\ \A i \in DOMAIN d : d[i][1] # ""
                /\ \A i, j \in DOMAIN d : i # j => d[i][1] # d[j][1]
                /\ {d[i][1] : i \in DOMAIN d}
                     = {events[i].userAddress : i \in WindowRemoves(events, w)} \ {""}
                /\ \A i \in DOMAIN d : d[i][2] = RemovedBy(events, w, d[i][1])
                /\ r.removes = WindowSum(events, w, "REMOVE")
                /\ Total(d) = r.removes - RemovedBy(events, w, "")
                /\ Total(d) <= r.removes

\* a removal of 7 without an address and a removal of 3 by A in one window
C9_Witness ==
    /\ Aggregated
    /\ \E name \in RangeNames :
          /\ \E i \in WindowRemoves(events, Windows[name]) :
                events[i].userAddress = "" /\ events[i].valueUSD = <<7>>
          /\ range_results[name].removes = 10
          /\ range_results[name].remove_by_user = << <<"A", 3>> >>

ZeroResult ==
    [adds |-> 0, removes |-> 0, remove_by_user |-> <<>>, delta |-> 0, total_removes |-> 0]

NoAddresses == [count |-> 0, address |-> "", raised |-> FALSE]

\* C10: the no-data case never raises and is reported as zero / empty values:
\* aggregating an empty event list yields adds = removes = delta = 0 and an empty
\* remove_by_user for every window key, and the concentration analysis returns
\* (0, "") whenever the actor mapping is empty or the total removals is zero.
C10_NoData ==
    /\ (pc = "done" /\ events = <<>>) =>
          /\ DOMAIN range_results = RangeNames
          /\ \A name \in RangeNames :
                /\ range_results[name] = ZeroResult
                /\ analysis[name] = NoAddresses
                /\ legacy[name].delta = 0
                /\ legacy[name].analysis = NoAddresses
    /\ pc = "done" =>
          \A name \in RangeNames :
              /\ ~analysis[name].raised
              /\ ~legacy[name].analysis.raised
              /\ (range_results[name].remove_by_user = <<>>
                    \/ range_results[name].total_removes = 0)
                    => analysis[name] = NoAddresses
    /\ pc = "concentration_done" =>
          /\ ~conc.optimized.raised
          /\ ~conc.legacy.raised
          /\ (remove_by_user = <<>> \/ total_removes = 0) => conc.optimized = NoAddresses
          /\ (remove_by_user = <<>> \/ Total(remove_by_user) = 0) => conc.legacy = NoAddresses

\* the analysis called with removers but a zero total
C10_Witness ==
    /\ pc = "concentration_done"
    /\ remove_by_user = << <<"A", 10>> >>
    /\ total_removes = 0
    /\ conc.optimized = NoAddresses

\* the sum of the values of the actors at the positions S of a mapping
SumAt(d, S) == SumOver([i \in DOMAIN d |-> d[i][2]], S)

\* 70% of the total is reached by the amount x
AtLeast70(x, total) == 10 * x >= 7 * total

\* the sum of the k largest values of a mapping
TopSum(d, k) ==
    LET sums == {SumAt(d, S) : S \in {T \in SUBSET DOMAIN d : Cardinality(T) = k}}
    IN  CHOOSE x \in sums : \A y \in sums : y <= x

\* k is the smallest count whose k largest values reach 70% of the total: the k
\* largest do, and no set of fewer than k actors does
SmallestCount(d, total, k) ==
    /\ 1 <= k
    /\ k <= Len(d)
    /\ AtLeast70(TopSum(d, k), total)
    /\ \A S \in SUBSET DOMAIN d : Cardinality(S) < k => ~AtLeast70(SumAt(d, S), total)

\* C5: for every non-empty actor -> removal mapping with a positive total (the
\* sum of its values), the concentration analysis returns the smallest k >= 1
\* such that the k largest per-actor totals sum to at least 70% of the total,
\* exactly 70% included; no set of fewer than k actors reaches 70%, and
\* 1 <= k <= number of actors.
C5_SmallestCountReaching70 ==
    (pc = "concentration_done" /\ remove_by_user # <<>> /\ Total(remove_by_user) > 0) =>
        /\ SmallestCount(remove_by_user, Total(remove_by_user), conc.legacy.count)
        /\ total_removes = Total(remove_by_user) =>
              SmallestCount(remove_by_user, total_removes, conc.optimized.count)
        /\ (remove_by_user = << <<"A", 40>>, <<"B", 35>>, <<"C", 25>> >>
              /\ total_removes = 100) =>
              (conc.optimized.count = 2 /\ conc.legacy.count = 2)

\* {A: 70, B: 20, C: 10} of 100: A alone holds exactly 70%
C5_Witness ==
    /\ pc = "concentration_done"
    /\ remove_by_user = << <<"B", 20>>, <<"A", 70>>, <<"C", 10>> >>
    /\ total_removes = 100
    /\ conc.optimized.count = 1
    /\ conc.legacy.count = 1

\* C6: the sole-actor ("most remover") field returned by the concentration
\* analysis is non-empty only when the returned count is exactly 1; for every
\* result with count 0 or count >= 2 the field is empty.
C6_SoleActorOnlyForCountOne ==
    pc = "concentration_done" =>
        /\ conc.legacy.count # 1 => conc.legacy.address = ""
        /\ conc.optimized.count # 1 => conc.optimized.address = ""

\* C7 as claimed: whenever the reported address count k of a window is greater
\* than 0, the k largest removers of the window together hold at least 70% of
\* the window's total removes, the removes without a userAddress included.
C7_CountReaches70OfAllRemoves ==
    pc = "done" =>
        \A name \in RangeNames :
            analysis[name].count > 0 =>
                AtLeast70(TopSum(range_results[name].remove_by_user, analysis[name].count),
                          WindowSum(events, Windows[name], "REMOVE"))

\* the per-address totals of the REMOVE events of a list, in any order
AddressTotals(evs) ==
    LET A == {evs[i].userAddress : i \in {j \in DOMAIN evs : evs[j].type = "REMOVE"}} \ {""}
    IN  {<<a, SumOver([i \in DOMAIN evs |-> ValueOf(evs[i])],
                      {i \in DOMAIN evs : evs[i].type = "REMOVE" /\ evs[i].userAddress = a})>>
            : a \in A}

RECURSIVE SeqOfSet(_)
SeqOfSet(S) ==
    IF S = {} THEN <<>>
    ELSE LET x == CHOOSE y \in S : TRUE IN <<x>> \o SeqOfSet(S \ {x})

\* C7 as amended: whenever the reported count k of a window is greater than 0,
\* either the k largest removers hold at least 70% of the window's total
\* removes, or k is the number of all removers with a userAddress in the window
\* and all of them together stay below 70% of that total; in
\* get_pool_tvl_deltas.py, where the total is the sum of the removals that carry
\* a userAddress among the filtered events, the k largest removers always hold
\* at least 70% of that sum.
C7_CountReaches70OrAllRemovers ==
    pc = "done" =>
        \A name \in RangeNames :
            LET d     == range_results[name].remove_by_user
                k     == analysis[name].count
                total == WindowSum(events, Windows[name], "REMOVE")
                ld    == SeqOfSet(AddressTotals(legacy[name].filtered))
                lk    == legacy[name].analysis.count
            IN  /\ k > 0 =>
                      \/ AtLeast70(TopSum(d, k), total)
                      \/ k = Len(d) /\ ~AtLeast70(Total(d), total)
                /\ lk > 0 => AtLeast70(TopSum(ld, lk), Total(ld))

\* A removes 3 and an event without address removes 7: the count is 1 although
\* A holds 30% of the window's removes
C7_Witness ==
    /\ pc = "done"
    /\ \E name \in RangeNames :
          /\ range_results[name].remove_by_user = << <<"A", 3>> >>
          /\ range_results[name].total_removes = 10
          /\ analysis[name].count = 1
          /\ legacy[name].analysis.count = 1

Distance(a, b) == IF a >= b THEN a - b ELSE b - a

\* C8: get_tvl_for_date returns 0.0 for an empty snapshot sequence; otherwise
\* it returns the totalLiquidity (0.0 when null or missing) of the snapshot
\* minimizing |timestamp - target|, the earliest in the sequence among equally
\* close ones.
C8_NearestSnapshot ==
    pc = "tvl_done" =>
        IF snapshots = <<>> THEN tvl = 0
        ELSE \E i \in DOMAIN snapshots :
                /\ \A j \in DOMAIN snapshots :
                      Distance(snapshots[i].timestamp, target_timestamp)
                          <= Distance(snapshots[j].timestamp, target_timestamp)
                /\ \A j \in 1..(i - 1) :
                      Distance(snapshots[i].timestamp, target_timestamp)
                          < Distance(snapshots[j].timestamp, target_timestamp)
                /\ tvl = IF snapshots[i].totalLiquidity = <<>> THEN 0
                         ELSE snapshots[i].totalLiquidity[1]

\* timestamps [100, 200, 300] with liquidity [10, 20, 30] and target 210 give 20
C8_Witness ==
    /\ pc = "tvl_done"
    /\ snapshots = << [timestamp |-> 100, totalLiquidity |-> <<10>>],
                      [timestamp |-> 200, totalLiquidity |-> <<20>>],
                      [timestamp |-> 300, totalLiquidity |-> <<30>>] >>
    /\ target_timestamp = 210
    /\ tvl = 20

\* the list without the events that are neither ADD nor REMOVE
WithoutOtherTypes(evs) == SelectSeq(evs, LAMBDA e : e.type \in {"ADD", "REMOVE"})

\* calculate_delta converts the valueUSD of an event of the window before it
\* looks at its type: it raises when float() rejects one
DeltaRaises(evs, w) == \E i \in DOMAIN evs : InWindow(evs[i], w) /\ Len(evs[i].valueUSD) = 2

\* C11: an event whose type is neither ADD nor REMOVE changes no window's adds,
\* removes or remove_by_user: the result of the aggregation for any event list
\* is the result for the list with such events deleted, in
\* process_events_for_ranges and in calculate_delta.
C11_OtherTypesChangeNothing ==
    (Aggregated \/ pc = "values_done") =>
        /\ range_results = process_events_for_ranges(WithoutOtherTypes(events), Windows)
        /\ \A name \in RangeNames :
              /\ DeltaRaises(events, Windows[name])
                     = DeltaRaises(WithoutOtherTypes(events), Windows[name])
              /\ ~DeltaRaises(events, Windows[name]) =>
                     calculate_delta(events, Windows[name][1], Windows[name][2])
                         = calculate_delta(WithoutOtherTypes(events),
                                           Windows[name][1], Windows[name][2])

\* the list with every valueUSD that is null, missing or not a number set to 0
Zeroed(evs) ==
    [i \in DOMAIN evs |->
        IF evs[i].valueUSD = <<>> \/ Len(evs[i].valueUSD) = 2
        THEN [evs[i] EXCEPT !.valueUSD = <<0>>]
        ELSE evs[i]]

\* C12: an event whose valueUSD is null, missing or not a number counts as 0.0
\* and the aggregation completes without raising: its result is the result for
\* the list in which those values are 0, the other events still being summed.
C12_BadValueCountsAsZero ==
    pc = "values_done" =>
        range_results = process_events_for_ranges(Zeroed(events), Windows)

\* C14: when the cumulative share never reaches 70% after all N actors (the
\* total passed exceeds the sum of the per-actor values) the analysis returns
\* the count N, with the top actor as sole-actor address if N = 1 and the empty
\* address otherwise.
C14_NeverReachedGivesEmptyAddress ==
    (/\ pc = "concentration_done"
     /\ remove_by_user # <<>>
     /\ total_removes > 0
     /\ ~AtLeast70(Total(remove_by_user), total_removes)) =>
        conc.optimized = [count   |-> Len(remove_by_user),
                          address |-> IF Len(remove_by_user) = 1
                                      THEN remove_by_user[1][1] ELSE "",
                          raised  |-> FALSE]

\* the last element of a non-empty sequence
Last(seq) == seq[Len(seq)]

CallEnded == pc \in {"returned", "raised"}

\* C15: with the rate limiter, every interval of 10 seconds holds at most 30
\* of the posts of make_api_request, whatever the responses (429s, after which
\* request_times is cleared, and posts that raise included).
C15_AtMost30PostsPer10Seconds == Len(sent) <= 30

\* C19 as stated: make_api_request retries every failure of a post (every status
\* other than 200 and every exception) and makes at most max_retries posts: a
\* call ends after a 200 or after max_retries posts.
C19_EveryFailureIsRetried ==
    /\ Len(outcomes) <= 3
    /\ CallEnded => Last(outcomes) = 200 \/ Len(outcomes) = 3

\* C19, amended: make_api_request retries the 429 responses and the exceptions,
\* and only those, and makes at most max_retries posts: every post but the last of
\* a call gave a 429 or raised, and a call that ends on a 429 or an exception
\* has made max_retries posts (any other status is returned at once).  The
\* exception of a call that raises is that of its last post, or that of the
\* sleep after its last 429.
C19_RetriesRateLimitAndExceptions ==
    /\ Len(outcomes) <= 3
    /\ \A i \in 1..(Len(outcomes) - 1) : outcomes[i] \in {0, 429}
    /\ pc = "attempt" => \A i \in DOMAIN outcomes : outcomes[i] \in {0, 429}
    /\ CallEnded /\ Last(outcomes) \in {0, 429} => Len(outcomes) = 3
    /\ pc = "raised" => Last(outcomes) \in {0, 429}

\* a call that a status 500 ended at its second post, after a retried failure
C19_Witness ==
    /\ pc = "returned"
    /\ Len(outcomes) = 2
    /\ outcomes[1] \in {0, 429}
    /\ outcomes[2] = 500

\* C16: the pagination of a pool's events never makes more than 200 page
\* requests (200 pages of 1000 events, the cutoff of 200,000 events), whatever
\* the API serves.
C16_AtMost200PageRequests == page_requests <= 200

\* the timestamp lies in one of the three windows of the run
InAnyWindow(ts, d) ==
    \E name \in RangeNames : InWindow([timestamp |-> ts], ranges_of(d)[name])

\* the number of events of a run-length encoded list that lie in a window
RECURSIVE WindowCount(_, _)
WindowCount(list, d) ==
    IF list = <<>> THEN 0
    ELSE (IF InAnyWindow(list[1][2], d) THEN list[1][1] ELSE 0)
         + WindowCount(Tail(list), d)

\* C17: when every request succeeds and the pool has fewer events than the
\* cutoff, the fetched list is complete: it holds every event of the API whose
\* timestamp lies in one of the three windows, in whatever order the API serves
\* the events.
C17_FetchedListIsComplete ==
    (pc = "fetched" /\ fetch_ok /\ list_len(server) < 200000) =>
        WindowCount(all_events, dates) = WindowCount(server, dates)

\* C18: a failure of one pool's requests (a status other than 200 after the
\* retries, or an exception on every attempt of make_api_request) never aborts
\* the run: every pool of the list is processed and the spreadsheet is written.
C18_FailureNeverAbortsRun ==
    /\ pc # "aborted"
    /\ pc = "run_done" => idx = Len(pools) + 1 /\ sheet = rows

\* the row bd_monthly_data.py gives a pool processed on its own
RowAlone(pool) ==
    monthly_row(monthly_locals([name \in MonthlyLocals |-> Unbound], pool), pool)

\* C20: no state other than the rate limiter's crosses pool boundaries: the row
\* of a pool is a function of that pool's own data and holds no value computed
\* for an earlier pool; in bd_monthly_data.py every row is the row the pool
\* gets when it is processed on its own, whatever its number of snapshots.
C20_RowFromOwnPoolOnly ==
    \A i \in DOMAIN rows : rows[i] = RowAlone(pools[i])

\* the fetch is over: the loop was left by a break or by an exception
FetchEnded == pc \in {"fetched", "fetch_raised"}

\* the page is one after which the script asks for no other: empty, shorter
\* than 1000 events or, for the optimized script, all older than Nov 2nd
LastPage(which, page, nov_2nd_ts) ==
    \/ page = <<>>
    \/ list_len(page) < 1000
    \/ /\ which = "optimized"
       /\ \A i \in DOMAIN page : ~TsLeq(nov_2nd_ts, SecondsOf(page[i][2]))

\* C21: the pagination of a pool's events terminates whatever the API serves,
\* and no page is requested after the first page that is empty, has fewer than
\* 1000 events, carries GraphQL errors or comes with a status other than 200
\* (nor, in the optimized script, after the first page whose events are all
\* older than Nov 2nd).
C21_PaginationTerminates ==
    /\ <>FetchEnded
    /\ [][FetchEnded => page_requests' = page_requests /\ FetchEnded']_vars
    /\ [][(/\ page_requests' = page_requests + 1
           /\ \/ ~fetch_ok'
              \/ LastPage(script, list_slice(server, skip, 1000), dates.nov_2nd_ts))
             => FetchEnded']_vars

\* a fetch that ended on its second page, a page of fewer than 1000 events
C21_Witness ==
    /\ pc = "fetched"
    /\ fetch_ok
    /\ page_requests = 2
    /\ list_len(list_slice(server, 1000, 1000)) \in 1..999
    /\ list_len(all_events) > 1000
\* the number of events of a run-length encoded list with the timestamp ts
RECURSIVE CountAt(_, _)
CountAt(list, ts) ==
    IF list = <<>> THEN 0
    ELSE (IF list[1][2] = ts THEN list[1][1] ELSE 0) + CountAt(Tail(list), ts)

\* C22: the event list handed to aggregation holds no event twice, even when
\* the events of the pool grow or shift between two page requests: the events
\* of the API being distinct, the list never holds more events of a timestamp
\* than the API has.
C22_NoEventTwice ==
    \A i \in DOMAIN all_events :
        CountAt(all_events, all_events[i][2]) <= CountAt(server, all_events[i][2])
\* the waits of the call that followed a 429, by attempt (from 0)
WaitsAfter429 == {a \in 0..(Len(waits) - 1) : outcomes[a + 1] = 429}

\* C23: within one call of make_api_request the wait after a 429 on attempt a
\* is at least retry_delay * 2^a seconds (retry_delay is 1), and the waits
\* before successive retries strictly increase, for every 429 response, one
\* that carries a Retry-After header included.
C23_BackoffAfterEvery429 ==
    /\ \A a \in WaitsAfter429 : waits[a + 1].wait_time >= 10 * 2^a
    /\ \A a, b \in WaitsAfter429 :
           a < b => waits[a + 1].wait_time < waits[b + 1].wait_time

\* the Retry-After header of the response is a string that int() accepts
IntegerHeader(retry_after) == Len(retry_after) = 1

\* the header is read: only by the optimized script, and int() gives a length
\* that time.sleep accepts
HeaderObeyed(retry_after) ==
    script = "optimized" /\ IntegerHeader(retry_after) /\ retry_after[1] >= 0

\* C23 (amended): in get_pool_tvl_deltas.py every 429 on attempt a is followed
\* by a wait of 2^a seconds.  In get_pool_tvl_deltas_optimized.py a 429 with a
\* Retry-After header that is a non-negative integer is followed by a wait of
\* that many seconds, whatever the attempt; one with a negative integer is
\* handled as a post that raised (a wait of 2^a seconds before a retry, and
\* the exception leaves the call after the last attempt); every other 429 on
\* attempt a is followed by a wait of at least 2^a seconds and of less than
\* 2^a + 1 seconds (the jitter).  The waits that no header gives strictly
\* increase.
C23_BackoffUnlessRetryAfter ==
    /\ \A a \in WaitsAfter429 :
           IF HeaderObeyed(waits[a + 1].retry_after)
           THEN waits[a + 1].wait_time = 10 * waits[a + 1].retry_after[1]
           ELSE /\ waits[a + 1].wait_time >= 10 * 2^a
                /\ waits[a + 1].wait_time < 10 * (2^a + 1)
                /\ (script = "legacy" \/ IntegerHeader(waits[a + 1].retry_after))
                       => waits[a + 1].wait_time = 10 * 2^a
    /\ \A a, b \in WaitsAfter429 :
           (/\ a < b
            /\ ~HeaderObeyed(waits[a + 1].retry_after)
            /\ ~HeaderObeyed(waits[b + 1].retry_after))
               => waits[a + 1].wait_time < waits[b + 1].wait_time
    /\ (pc = "raised" /\ Last(outcomes) = 429) =>
           script = "optimized" /\ Len(outcomes) = 3 /\ Len(waits) = 2
    /\ (pc = "returned" /\ Last(outcomes) = 429) => Len(waits) = 3

\* a call of the optimized script answered 429 three times: with a negative
\* integer header, with no header and with a positive integer header
C23_Witness ==
    /\ pc = "returned"
    /\ script = "optimized"
    /\ outcomes = <<429, 429, 429>>
    /\ waits[1].retry_after = <<-1>>
    /\ waits[1].wait_time = 10
    /\ waits[2].retry_after = <<>>
    /\ waits[2].wait_time > 20
    /\ waits[3].retry_after = <<3>>
    /\ waits[3].wait_time = 30
\* the dict holds each of its keys once, and the two dicts map the same keys
\* to the same values
SameMapping(d1, d2) ==
    /\ Cardinality(DictKeys(d1)) = Len(d1)
    /\ Cardinality(DictKeys(d2)) = Len(d2)
    /\ {d1[i] : i \in DOMAIN d1} = {d2[i] : i \in DOMAIN d2}

\* C24: the aggregation result does not depend on the order of iteration: for
\* every list of events with integer values, every permutation of the events
\* and every order of the window keys give the same adds, removes, delta and
\* remove_by_user (as a mapping) for each window, and the result has exactly
\* one entry per window key.
C24_OrderIndependent ==
    pc = "shuffled" =>
        /\ Len(shuffled.results) = Cardinality(RangeNames)
        /\ DictKeys(shuffled.results) = RangeNames
        /\ \A i \in DOMAIN range_results : \A j \in DOMAIN shuffled.results :
               range_results[i][1] = shuffled.results[j][1] =>
                   /\ range_results[i][2].adds = shuffled.results[j][2].adds
                   /\ range_results[i][2].removes = shuffled.results[j][2].removes
                   /\ range_results[i][2].delta = shuffled.results[j][2].delta
                   /\ SameMapping(range_results[i][2].remove_by_user,
                                  shuffled.results[j][2].remove_by_user)

\* two removals given in the other order, the keys in another order: the
\* actors are met in another order
C24_Witness ==
    /\ pc = "shuffled"
    /\ Len(events) = 2
    /\ shuffled.events # events
    /\ shuffled.keys # RangeOrder
    /\ \E i \in DOMAIN range_results : \E j \in DOMAIN shuffled.results :
           /\ range_results[i][1] = shuffled.results[j][1]
           /\ Len(range_results[i][2].remove_by_user) = 2
           /\ range_results[i][2].remove_by_user # shuffled.results[j][2].remove_by_user
\* every timestamp of the list is in seconds
AllInSeconds(evs) == \A i \in DOMAIN evs : SecondsOf(evs[i].timestamp) = evs[i].timestamp

\* C25: the two TVL scripts agree on the withdrawal concentration: on the same
\* events with timestamps in seconds, the address count of
\* calculate_withdrawal_analysis for a window equals the count of
\* calculate_withdrawal_analysis_from_results on the remove_by_user and
\* total_removes of process_events_for_ranges for that window, REMOVE events
\* with an empty userAddress included.
C25_ScriptsAgreeOnCount ==
    (pc = "done" /\ AllInSeconds(events)) =>
        \A name \in RangeNames :
            legacy_filter_bounds(dates)[name] = ranges_of(dates)[name] =>
                analysis[name].count = legacy[name].analysis.count
\* the ADD and REMOVE events of the list whose timestamp lies in the window
WindowEvents(evs, w) ==
    SelectSeq(evs, LAMBDA e : e.type \in {"ADD", "REMOVE"} /\ InWindow(e, w))

\* C26: in get_pool_tvl_deltas.py the delta and the address count reported for
\* a window are computed over the same events, the ADD and REMOVE events whose
\* timestamp lies in the window, whatever the order of the day seven days ago
\* and Nov 5th (events with timestamps in seconds).
C26_DeltaAndCountOverSameEvents ==
    (pc = "done" /\ AllInSeconds(events)) =>
        \A name \in RangeNames :
            /\ legacy[name].filtered = WindowEvents(events, Windows[name])
            /\ legacy[name].delta = WindowSum(legacy[name].filtered, Windows[name], "ADD")
                                    - WindowSum(legacy[name].filtered, Windows[name], "REMOVE")
\* the run is over: main has returned or an exception has left it
RunEnded == pc \in {"run_done", "aborted"}

\* the pool has a row
HasRow(pool) == \E i \in DOMAIN rows : rows[i].pool = pool

\* an events request was made for the pool
EventsRequested(pool) ==
    \E k \in DOMAIN requested : requested[k].pool = pool /\ requested[k].query = "events"

\* C27: in get_pool_tvl_deltas_optimized.py a pool gives a row if and only if
\* its TVL at Nov 2nd, taken from the snapshots its request returned (0 when
\* the request failed or returned none), is at least 300000; for a pool below
\* that no events request is made and no row is given.
C27_RowIffTvlAtLeast300000 ==
    (script = "optimized" /\ RunEnded) =>
        \A k \in DOMAIN requested :
            (requested[k].query = "snapshots" /\ ~requested[k].raised) =>
                /\ HasRow(requested[k].pool) <=> requested[k].tvl_nov_2nd[1] >= 300000
                /\ requested[k].tvl_nov_2nd[1] < 300000
                       => ~EventsRequested(requested[k].pool)
\* the times of the sequence never decrease
NonDecreasing(times) == \A i, j \in DOMAIN times : i < j => times[i] <= times[j]

\* C28: in every state of a run request_times holds at most 30 timestamps, in
\* non-decreasing order, and whenever wait_if_needed returns it holds fewer
\* than 30 timestamps, all of them within the last 10 seconds.
C28_LimiterWindow ==
    /\ Len(request_times) <= 30
    /\ NonDecreasing(request_times)
    /\ Len(admitted.request_times) < 30
    /\ NonDecreasing(admitted.request_times)
    /\ \A i \in DOMAIN admitted.request_times :
           /\ admitted.request_times[i] >= admitted.now - 100
           /\ admitted.request_times[i] <= admitted.now

\* wait_if_needed has found 30 timestamps, waited for the oldest to expire and
\* returned (no post has failed and the posts take no time: the clock has only
\* moved by that wait), and the post that followed has been recorded
C28_Witness ==
    /\ latency = 0
    /\ failures_left = MaxFailures
    /\ posts = 31
    /\ admitted.now > 100
    /\ Len(admitted.request_times) < 30
    /\ Len(request_times) = Len(admitted.request_times) + 1
\* the APRs of the items of the type, in the order of the list
AprsOfType(items, typ) ==
    LET of_type == SelectSeq(items, LAMBDA it : it.type = typ)
    IN  [i \in DOMAIN of_type |-> of_type[i].apr]

\* the value an APR counts for: 0 when it is null or cannot be parsed
Parsed(apr) == IF Len(apr) = 1 THEN apr[1] ELSE 0

\* the swap-fee APR counted once: the first dynamic one if there is any,
\* otherwise the first static one, otherwise 0
SwapFeeApr(items) ==
    LET dynamic == AprsOfType(items, "DYNAMIC_SWAP_FEE_24H")
        static  == AprsOfType(items, "SWAP_FEE_24H")
    IN  IF dynamic # <<>> THEN Parsed(dynamic[1])
        ELSE IF static # <<>> THEN Parsed(static[1])
        ELSE 0

\* the sum of the APRs of the items of every other type
OtherApr(items) ==
    SumOver([i \in DOMAIN items |-> Parsed(items[i].apr)],
            {i \in DOMAIN items :
                items[i].type \notin {"DYNAMIC_SWAP_FEE_24H", "SWAP_FEE_24H"}})

\* C29: in get_plasma_pools.py the reported APR counts the swap-fee APR once:
\* it is the sum of the APRs of the items that are of neither swap-fee type,
\* plus the APR of the first DYNAMIC_SWAP_FEE_24H item if there is one (even
\* when that APR is 0), otherwise of the first SWAP_FEE_24H item, otherwise 0,
\* an APR that cannot be parsed counting as 0; the row shows it with three
\* decimals.
C29_SwapAprCountedOnce ==
    LET Reported == IF sheet = NotWritten THEN rows ELSE rows \o sheet
    IN  \A i \in DOMAIN Reported :
            Reported[i].current_apr * 10 - 5 <=
                SwapFeeApr(Reported[i].pool.aprItems) + OtherApr(Reported[i].pool.aprItems)
            /\ SwapFeeApr(Reported[i].pool.aprItems) + OtherApr(Reported[i].pool.aprItems)
                   < Reported[i].current_apr * 10 + 5

\* a pool with a dynamic swap APR of 0 before a static one of 30 and an item of
\* another type of 12: the spreadsheet shows 0.001
C29_Witness ==
    /\ pc = "plasma_done"
    /\ Len(sheet) = 1
    /\ sheet = rows
    /\ sheet[1].current_apr = 1
    /\ AprsOfType(sheet[1].pool.aprItems, "DYNAMIC_SWAP_FEE_24H") = <<<<0>>>>
    /\ AprsOfType(sheet[1].pool.aprItems, "SWAP_FEE_24H") = <<<<30>>>>
    /\ AprsOfType(sheet[1].pool.aprItems, "STAKING") = <<<<12>>>>

\* the requests of the iteration of a pool have all returned: the pool has a
\* row or was skipped
Handled(pool) ==
    /\ \E k \in DOMAIN requested : requested[k].pool = pool
    /\ \A k \in DOMAIN requested : requested[k].pool = pool => ~requested[k].raised
    /\ \/ \E i \in DOMAIN rows : rows[i].pool = pool
       \/ script = "optimized" /\ \E k \in DOMAIN requested :
              /\ requested[k].pool = pool
              /\ requested[k].query = "snapshots"
              /\ requested[k].tvl_nov_2nd[1] < tvl_threshold

\* C30: in the TVL-delta scripts the spreadsheet is modified only after every
\* pool of the fetched list has been processed or skipped; when the query for
\* the list of pools returns a status other than 200, or the run aborts while
\* the pools are processed, the spreadsheet is left untouched.
C30_SheetOnlyAfterEveryPool ==
    /\ [][sheet' # sheet =>
              /\ idx > Len(pools)
              /\ \A i \in DOMAIN pools : Handled(pools[i])]_vars
    /\ [](pc \in {"query_failed", "aborted"} => sheet = NotWritten)

\* two pools, one with a row and one skipped, and the spreadsheet written
C30_Witness ==
    /\ pc = "run_done"
    /\ Len(pools) = 2
    /\ Len(rows) = 1
    /\ sheet = rows
====
